---------------------------- MODULE Spec2Model ----------------------------
(***************************************************************************)
(* Speculative Huffman decoding: the Huffman coding core                   *)
(* (source/huffman/Huffman.py), the single-symbol decoder                  *)
(* (source/decoders/SingleDecoder.py), the speculative decoder             *)
(* (source/decoders/SpeculativeDecoder.py) and the length predictors       *)
(* (source/predictors).                                                    *)
(*                                                                         *)
(* Representation.  A Python str of bits is a sequence of the one-character*)
(* strings "0", "1" (and "x" for any other character).  A Python dict is a *)
(* sequence of <<key, value>> pairs with distinct keys, in insertion order.*)
(* A Node is a record; the None of a node reference is Nil, the None of a  *)
(* symbol is None.  A call that may raise yields [raised, value].          *)
(***************************************************************************)
EXTENDS Integers, Sequences, FiniteSets, TLC

VARIABLES
    \* ---- Huffman core (specification SpecHuffman)
    frequency_table,    \* the histogram handed to the Huffman core
    sequence,           \* the symbol sequence handed to encode
    hstep,              \* which Huffman operations have been applied
    huffman_tree,       \* build_huffman_tree(frequency_table)
    huffman_codes,      \* generate(frequency_table)
    default_codes,      \* generate_huffman_codes(huffman_tree)
    encoded_bits,       \* encode(sequence, huffman_codes)
    decoded,            \* decode(encoded_bits, huffman_tree)
    \* ---- single-symbol decoder (specification SpecSingle)
    single,             \* a SingleDecoder object
    single_data,        \* the string its decode calls read
    single_call,        \* <<position>> of its last decode call, <<>> if none
    single_result,      \* the SingleDecodingResult that call returned
    single_returned     \* the results returned since the last reset_statistics

svars == <<single, single_data, single_call, single_result, single_returned>>

VARIABLES
    \* ---- speculative decoder (specifications Spec and SpecFlush)
    sd,                 \* a SpeculativeDecoder object
    call_data,          \* the bit string of its running or last decode call
    frame,              \* the locals of that call
    pc,                 \* "idle", "flushed", "loop" (in decode's while), "returned"
    constructed,        \* the arguments the object was constructed with
    inputs,             \* the bit strings decode is called with
    calls,              \* decode calls begun so far
    calls_allowed,      \* decode calls this behaviour may make
    after_flush,        \* the running or last call directly followed a flush
    fed                 \* the lengths that call has passed to predictor.feed

dvars == <<sd, call_data, frame, pc, constructed, inputs, calls, calls_allowed,
           after_flush, fed>>

hvars == <<frequency_table, sequence, hstep, huffman_tree, huffman_codes,
           default_codes, encoded_bits, decoded>>

VARIABLES
    \* ---- optimizer (specification SpecOptimize)
    scheme,             \* the SimpleProbabilisticScheme of a SimpleOptimizer
    opt_w,              \* the w handed to optimize
    variants,           \* the variants handed to optimize, as a list
    unserved,           \* indexes of the variants whose result has not arrived
    best_score,         \* optimize's local best_score
    best_variant,       \* optimize's local best_variant
    ostep,              \* "idle", "start", "pool" (in the for loop), "returned"
    \* ---- dynamic predictor on its own (specification SpecPredictor)
    dp,                 \* a DynamicPredictor object
    context0,           \* the initial_context it was constructed with
    feeds,              \* the arguments of its feed calls so far
    prediction          \* <<n, result>> of implicitly_predict since the last feed

ovars == <<scheme, opt_w, variants, unserved, best_score, best_variant, ostep>>

pvars == <<dp, context0, feeds, prediction>>

VARIABLES
    \* ---- expectation_sorted and its cache (specification SpecExpectation)
    calc_scheme,        \* the scheme of a SimpleStatisticalCalculations
    calc_cache,         \* what @cache holds: <<w, l_vec>> -> value
    calc_call,          \* <<w, l_vec, result>> of the last call, or <<>>
    calc_calls          \* calls made so far

evars == <<calc_scheme, calc_cache, calc_call, calc_calls>>

VARIABLES
    \* ---- get_top and get_baseline_set (specification SpecRequests)
    top_scheme,         \* the scheme get_top is called on
    top_call,           \* <<n, what get_top(n) returned or raised>>, or <<>>
    gen_lengths,        \* the lengths of a VariantsGenerator
    gen_n,              \* the n of its running get_baseline_set call
    gen_j0,             \* the j that call was entered with
    gen_j,              \* the j of the innermost get_baseline_set frame
    gen_result          \* what the call returned, or <<>> while it runs

gvars == <<top_scheme, top_call, gen_lengths, gen_n, gen_j0, gen_j,
           gen_result>>

VARIABLES
    \* ---- k-gram model and conditional scheme (SpecKGram, SpecScheme)
    kg,                 \* a KGramModel object
    kg_fed,             \* the symbols its feed was called with, in order
    cps,                \* a ConditionalProbabilisticScheme made from kg
    cps_inserted,       \* entries its queries have added to its dictionaries
    cps_table           \* <<n, what build_assignment_table(n) gave>>, or <<>>

kvars == <<kg, kg_fed, cps, cps_inserted, cps_table>>

VARIABLES
    \* ---- one speculate round on every input of a source (SpecRate)
    rate_source,        \* a code table and the weight of each of its symbols
    rate_L,             \* the vector of the StaticPredictor
    rate_data,          \* the symbols of the next input, <<>> after the last
    rate_commited       \* codewords committed so far, each round weighted
                        \* by the probability of its input

rvars == <<rate_source, rate_L, rate_data, rate_commited>>

\* the components added after the decoders, the optimizer and the predictor
tvars == <<evars, gvars, kvars, rvars>>

\* what an action of the later components leaves alone among the earlier ones
earlier_vars == <<hvars, svars, dvars, ovars, pvars>>
not_evars == <<earlier_vars, gvars, kvars, rvars>>
not_gvars == <<earlier_vars, evars, kvars, rvars>>
not_kvars == <<earlier_vars, evars, gvars, rvars>>
not_rvars == <<earlier_vars, evars, gvars, kvars>>

----------------------------------------------------------------------------
(* Bounds of the model *)

MaxSymbols == 3      \* entries of a histogram
MaxData == 2         \* symbols of an encoded sequence
MaxCodeLen == 2      \* bits of a codeword in a hand-made code table
MaxChars == 2        \* characters of a string handed to SingleDecoder.decode
MaxDecodes == 2      \* SingleDecoder.decode calls between two resets
MaxBits == 4         \* bits of a string handed to SpeculativeDecoder.decode
MaxCalls == 2        \* decode calls on one SpeculativeDecoder
MaxVariants == 3     \* variants handed to SimpleOptimizer.optimize
MaxFeeds == 3        \* feed calls on one DynamicPredictor
MaxOffset == 3       \* the largest offset of a vector handed to expectation_sorted
MaxQueries == 2      \* expectation_sorted calls on one calculator
MaxLevels == 3       \* nested get_baseline_set frames that are followed
MaxOrder == 2        \* the largest k of a KGramModel
MaxTrain == 5        \* feed calls on one KGramModel
MaxInserted == 1     \* entries the queries of one scheme may add

\* the byte symbols 'a', 'b', 'c', ...
Symbols == 97..(96 + MaxSymbols)
\* the frequencies histograms draw from (scenario S1 uses 5, 2, 1)
Frequencies == {1, 2, 5}

----------------------------------------------------------------------------
(* Python values *)

None == -1
Nil == [nil |-> TRUE]

\* a call that returned v; a call that raised, with what its accumulator
\* (encoded_bits, decoded) held when it did
Returned(v) == [raised |-> FALSE, value |-> v]
Raised(v) == [raised |-> TRUE, value |-> v]

\* dict: k in d, d[k], d[k] = v, d.items()
DictHas(d, k) == \E i \in 1..Len(d) : d[i][1] = k
DictGet(d, k) == d[CHOOSE i \in 1..Len(d) : d[i][1] = k][2]
DictSet(d, k, v) ==
    IF DictHas(d, k)
    THEN [i \in 1..Len(d) |-> IF d[i][1] = k THEN <<k, v>> ELSE d[i]]
    ELSE Append(d, <<k, v>>)
DictKeys(d) == {d[i][1] : i \in 1..Len(d)}

RECURSIVE SeqSum(_)
SeqSum(s) == IF s = <<>> THEN 0 ELSE Head(s) + SeqSum(Tail(s))

RECURSIVE Pow2(_)
Pow2(n) == IF n = 0 THEN 1 ELSE 2 * Pow2(n - 1)

----------------------------------------------------------------------------
(* Huffman.py: Node *)

Node(symbol, frequency) ==
    [symbol |-> symbol, frequency |-> frequency, left |-> Nil, right |-> Nil]
\* __lt__ with the comparison the wrong way round
Node_lt_reversed(self, other) == self.frequency > other.frequency

Node_lt(self, other) == self.frequency < other.frequency

(* heapq, as build_huffman_tree uses it on a list of Node (0-based positions) *)

RECURSIVE siftdown_loop(_, _, _, _)
siftdown_loop(heap, startpos, pos, newitem) ==
    IF pos > startpos
    THEN LET parentpos == (pos - 1) \div 2
             parent == heap[parentpos + 1]
         IN  IF Node_lt(newitem, parent)
             THEN siftdown_loop([heap EXCEPT ![pos + 1] = parent],
                                startpos, parentpos, newitem)
             ELSE [heap EXCEPT ![pos + 1] = newitem]
    ELSE [heap EXCEPT ![pos + 1] = newitem]

siftdown(heap, startpos, pos) ==
    siftdown_loop(heap, startpos, pos, heap[pos + 1])

RECURSIVE siftup_loop(_, _, _, _)
siftup_loop(heap, startpos, pos, newitem) ==
    LET endpos == Len(heap)
        childpos == 2 * pos + 1
        rightpos == childpos + 1
        smaller == IF rightpos < endpos
                      /\ ~Node_lt(heap[childpos + 1], heap[rightpos + 1])
                   THEN rightpos ELSE childpos
    IN  IF childpos < endpos
        THEN siftup_loop([heap EXCEPT ![pos + 1] = heap[smaller + 1]],
                         startpos, smaller, newitem)
        ELSE siftdown([heap EXCEPT ![pos + 1] = newitem], startpos, pos)

siftup(heap, pos) == siftup_loop(heap, pos, pos, heap[pos + 1])

RECURSIVE heapify_from(_, _)
heapify_from(heap, i) ==
    IF i < 0 THEN heap ELSE heapify_from(siftup(heap, i), i - 1)

heapify(x) == heapify_from(x, (Len(x) \div 2) - 1)

\* heappop: <<the smallest item, the heap without it>>
heappop(heap) ==
    LET lastelt == heap[Len(heap)]
        rest == SubSeq(heap, 1, Len(heap) - 1)
    IN  IF rest # <<>>
        THEN <<rest[1], siftup([rest EXCEPT ![1] = lastelt], 0)>>
        ELSE <<lastelt, rest>>

heappush(heap, item) == siftdown(Append(heap, item), 0, Len(heap))

(* Huffman.py: HuffmanCode *)

\* merge_loop that forgets `merged.right = right`
RECURSIVE merge_loop_no_right(_)
merge_loop_no_right(heap) ==
    IF Len(heap) > 1
    THEN LET p1 == heappop(heap)
             p2 == heappop(p1[2])
             merged == [Node(None, p1[1].frequency + p2[1].frequency)
                           EXCEPT !.left = p1[1]]
         IN  merge_loop_no_right(heappush(p2[2], merged))
    ELSE heap[1]

RECURSIVE merge_loop(_)
merge_loop(heap) ==
    IF Len(heap) > 1
    THEN LET p1 == heappop(heap)
             p2 == heappop(p1[2])
             left == p1[1]
             right == p2[1]
             merged == [Node(None, left.frequency + right.frequency)
                           EXCEPT !.left = left, !.right = right]
         IN  merge_loop(heappush(p2[2], merged))
    ELSE heap[1]

build_huffman_tree(table) ==
    IF table = <<>> THEN Nil
    ELSE IF Len(table) = 1 THEN Node(table[1][1], table[1][2])
    ELSE merge_loop(heapify([i \in 1..Len(table) |->
                                Node(table[i][1], table[i][2])]))

RECURSIVE generate_huffman_codes(_, _, _)
generate_huffman_codes(node, current_code, codes) ==
    IF node = Nil THEN codes
    ELSE IF node.symbol # None THEN DictSet(codes, node.symbol, current_code)
    ELSE LET after_left ==
                 IF node.left # Nil
                 THEN generate_huffman_codes(node.left,
                                             current_code \o <<"0">>, codes)
                 ELSE codes
         IN  IF node.right # Nil
             THEN generate_huffman_codes(node.right,
                                         current_code \o <<"1">>, after_left)
             ELSE after_left

\* generate_huffman_codes(node) with current_code = "" and huffman_codes = None
generate_huffman_codes_default(node) == generate_huffman_codes(node, <<>>, <<>>)

generate(symbol_frequencies) ==
    IF symbol_frequencies = <<>> THEN <<>>
    ELSE generate_huffman_codes(
             build_huffman_tree(symbol_frequencies),
             IF Len(symbol_frequencies) = 1 THEN <<"0">> ELSE <<>>,
             <<>>)

RECURSIVE encode_loop(_, _, _)
encode_loop(data, codes, encoded) ==
    IF data = <<>> THEN Returned(encoded)
    ELSE IF DictHas(codes, Head(data))
         THEN encode_loop(Tail(data), codes,
                          encoded \o DictGet(codes, Head(data)))
         ELSE Raised(encoded)

encode(data, codes) ==
    IF data = <<>> \/ codes = <<>> THEN Returned(<<>>)
    ELSE encode_loop(data, codes, <<>>)

\* decode_loop that forgets `current_node = huffman_tree` after a leaf
RECURSIVE decode_loop_no_reset(_, _, _, _)
decode_loop_no_reset(bits, tree, current_node, out) ==
    IF bits = <<>> THEN Returned(out)
    ELSE LET child == IF Head(bits) = "0" THEN current_node.left
                      ELSE current_node.right
         IN  IF child = Nil THEN Raised(out)
             ELSE decode_loop_no_reset(
                      Tail(bits), tree, child,
                      IF child.symbol # None THEN Append(out, child.symbol)
                      ELSE out)

RECURSIVE decode_loop(_, _, _, _)
decode_loop(bits, tree, current_node, out) ==
    IF bits = <<>> THEN Returned(out)
    ELSE LET child == IF Head(bits) = "0" THEN current_node.left
                      ELSE current_node.right
         IN  IF child = Nil THEN Raised(out)
             ELSE IF child.symbol # None
                  THEN decode_loop(Tail(bits), tree, tree,
                                   Append(out, child.symbol))
                  ELSE decode_loop(Tail(bits), tree, child, out)

decode(bits, tree) ==
    IF bits = <<>> \/ tree = Nil THEN Returned(<<>>)
    ELSE IF tree.symbol # None
         THEN Returned([i \in 1..Len(bits) |-> tree.symbol])
         ELSE decode_loop(bits, tree, tree, <<>>)

\* insert_code that makes a new child at every step, without the
\* `is None` tests
RECURSIVE insert_code_always_new(_, _, _)
insert_code_always_new(current, code, symbol) ==
    IF code = <<>> THEN [current EXCEPT !.symbol = symbol]
    ELSE IF Head(code) = "0"
         THEN [current EXCEPT !.left =
                  insert_code_always_new(Node(None, 0), Tail(code), symbol)]
         ELSE [current EXCEPT !.right =
                  insert_code_always_new(Node(None, 0), Tail(code), symbol)]

RECURSIVE insert_code(_, _, _)
insert_code(current, code, symbol) ==
    IF code = <<>> THEN [current EXCEPT !.symbol = symbol]
    ELSE IF Head(code) = "0"
         THEN [current EXCEPT !.left =
                  insert_code(IF current.left = Nil THEN Node(None, 0)
                              ELSE current.left, Tail(code), symbol)]
         ELSE [current EXCEPT !.right =
                  insert_code(IF current.right = Nil THEN Node(None, 0)
                              ELSE current.right, Tail(code), symbol)]

RECURSIVE insert_items(_, _)
insert_items(root, items) ==
    IF items = <<>> THEN root
    ELSE insert_items(insert_code(root, Head(items)[2], Head(items)[1]),
                      Tail(items))

build_decoding_tree(codes) ==
    IF codes = <<>> THEN Nil ELSE insert_items(Node(None, 0), codes)

----------------------------------------------------------------------------
(* The Huffman core driven on bounded inputs *)

\* dicts symbol -> frequency: distinct symbols in any insertion order
Histograms ==
    UNION {{t \in [1..n -> Symbols \X Frequencies] :
               \A i, j \in 1..n : i # j => t[i][1] # t[j][1]}
           : n \in 0..MaxSymbols}

SequencesOver(alphabet, n) == UNION {[1..k -> alphabet] : k \in 0..n}

\* scenario S1: histogram {a:5, b:2, c:1} and the input 'abacab'
S1_histogram == <<<<97, 5>>, <<98, 2>>, <<99, 1>>>>
S1_input == <<97, 98, 97, 99, 97, 98>>

HIdle ==
    /\ frequency_table = <<>>
    /\ sequence = <<>>
    /\ hstep = "idle"
    /\ huffman_tree = Nil
    /\ huffman_codes = <<>>
    /\ default_codes = <<>>
    /\ encoded_bits = Returned(<<>>)
    /\ decoded = Returned(<<>>)

HInit ==
    /\ frequency_table \in Histograms
    /\ sequence \in SequencesOver(DictKeys(frequency_table), MaxData)
                        \cup (IF frequency_table = S1_histogram
                              THEN {S1_input} ELSE {})
    /\ hstep = "start"
    /\ huffman_tree = Nil
    /\ huffman_codes = <<>>
    /\ default_codes = <<>>
    /\ encoded_bits = Returned(<<>>)
    /\ decoded = Returned(<<>>)

BuildTree ==
    /\ hstep = "start"
    /\ huffman_tree' = build_huffman_tree(frequency_table)
    /\ default_codes' = generate_huffman_codes_default(huffman_tree')
    /\ hstep' = "tree"
    /\ UNCHANGED <<frequency_table, sequence, huffman_codes, encoded_bits,
                   decoded, svars, dvars,
                   ovars, pvars, tvars>>

Generate ==
    /\ hstep = "tree"
    /\ huffman_codes' = generate(frequency_table)
    /\ hstep' = "codes"
    /\ UNCHANGED <<frequency_table, sequence, huffman_tree, default_codes,
                   encoded_bits, decoded, svars, dvars,
                   ovars, pvars, tvars>>

Encode ==
    /\ hstep = "codes"
    /\ encoded_bits' = encode(sequence, huffman_codes)
    /\ hstep' = "encoded"
    /\ UNCHANGED <<frequency_table, sequence, huffman_tree, huffman_codes,
                   default_codes, decoded, svars, dvars,
                   ovars, pvars, tvars>>

Decode ==
    /\ hstep = "encoded"
    /\ ~encoded_bits.raised
    /\ decoded' = decode(encoded_bits.value, huffman_tree)
    /\ hstep' = "decoded"
    /\ UNCHANGED <<frequency_table, sequence, huffman_tree, huffman_codes,
                   default_codes, encoded_bits, svars, dvars,
                   ovars, pvars, tvars>>

HNext == BuildTree \/ Generate \/ Encode \/ Decode

\* encode handed any sequence over the symbols, in the table's alphabet or
\* not, and any table: that of generate, the empty one, or a hand-made one
EncodeTables ==
    {<<<<97, <<"0">>>>>>,
     <<<<98, <<"1">>>>, <<97, <<"0", "1">>>>>>,
     <<<<97, <<"0">>>>, <<98, <<"0">>>>>>}

EInit ==
    /\ frequency_table \in Histograms
    /\ sequence \in SequencesOver(Symbols, MaxData)
    /\ hstep = "start"
    /\ huffman_tree = Nil
    /\ huffman_codes = <<>>
    /\ default_codes = <<>>
    /\ encoded_bits = Returned(<<>>)
    /\ decoded = Returned(<<>>)

UseTable ==
    /\ hstep = "start"
    /\ frequency_table = <<>>
    /\ huffman_codes' \in EncodeTables
    /\ hstep' = "codes"
    /\ UNCHANGED <<frequency_table, sequence, huffman_tree, default_codes,
                   encoded_bits, decoded, svars, dvars,
                   ovars, pvars, tvars>>

ENext == BuildTree \/ Generate \/ UseTable \/ Encode \/ Decode


----------------------------------------------------------------------------
(* DecodingStatistics.py, SingleDecodingResult.py, SingleDecoder.py *)

DecodingStatistics ==
    [total_decodes |-> 0, successful_decodes |-> 0, failed_decodes |-> 0,
     bits_processed |-> 0, single_symbol_decodes |-> 0]

\* the two ratios, as <<numerator, denominator>>; 0.0 is <<0, 1>>
success_rate(self) ==
    IF self.total_decodes = 0 THEN <<0, 1>>
    ELSE <<self.successful_decodes, self.total_decodes>>

average_bits_per_decode(self) ==
    IF self.total_decodes = 0 THEN <<0, 1>>
    ELSE <<self.bits_processed, self.total_decodes>>

SingleDecodingResult(was_decoded, symbol, length) ==
    [was_decoded |-> was_decoded, symbol |-> symbol, length |-> length]

\* __init__ that never sets _single_symbol
SingleDecoder_without_single_symbol(decoding_tree) ==
    [decoding_tree |-> decoding_tree,
     current_node |-> decoding_tree,
     single_symbol |-> None,
     stats |-> DecodingStatistics]

SingleDecoder(decoding_tree) ==
    [decoding_tree |-> decoding_tree,
     current_node |-> decoding_tree,
     single_symbol |-> IF decoding_tree # Nil /\ decoding_tree.symbol # None
                       THEN decoding_tree.symbol ELSE None,
     stats |-> DecodingStatistics]

\* the for loop of _decode, from index i (0-based) at current_node
RECURSIVE traverse(_, _, _, _)
traverse(data, i, current_node, bits_consumed) ==
    IF i >= Len(data)
    THEN SingleDecodingResult(FALSE, None, bits_consumed)
    ELSE LET bit == data[i + 1]
             consumed == bits_consumed + 1
             child == IF bit = "0" THEN current_node.left
                      ELSE current_node.right
         IN  IF bit \notin {"0", "1"} \/ child = Nil
             THEN SingleDecodingResult(FALSE, None, consumed)
             ELSE IF child.symbol # None
                  THEN SingleDecodingResult(TRUE, child.symbol, consumed)
                  ELSE traverse(data, i + 1, child, consumed)

\* _decode with the `position < len(data)` test of the single-symbol branch
\* left out
SingleDecoder__decode_any_position(self, data, position) ==
    IF self.decoding_tree = Nil
    THEN SingleDecodingResult(FALSE, None, 0)
    ELSE IF self.single_symbol # None
         THEN SingleDecodingResult(TRUE, self.single_symbol, 1)
         ELSE traverse(data, position, self.decoding_tree, 0)

SingleDecoder__decode(self, data, position) ==
    IF data = <<>> \/ position >= Len(data) \/ self.decoding_tree = Nil
    THEN SingleDecodingResult(FALSE, None, 0)
    ELSE IF self.single_symbol # None
         THEN IF position < Len(data)
              THEN SingleDecodingResult(TRUE, self.single_symbol, 1)
              ELSE SingleDecodingResult(FALSE, None, 0)
         ELSE traverse(data, position, self.decoding_tree, 0)

\* _update_stats that adds the bits of successful decodes only
SingleDecoder__update_stats_bits_of_successes(self, result) ==
    [self EXCEPT
        !.stats.total_decodes = @ + 1,
        !.stats.bits_processed =
            IF result.was_decoded THEN @ + result.length ELSE @,
        !.stats.successful_decodes =
            IF result.was_decoded THEN @ + 1 ELSE @,
        !.stats.single_symbol_decodes =
            IF result.was_decoded /\ result.length = 1
               /\ self.single_symbol # None
            THEN @ + 1 ELSE @,
        !.stats.failed_decodes = IF result.was_decoded THEN @ ELSE @ + 1]

SingleDecoder__update_stats(self, result) ==
    [self EXCEPT
        !.stats.total_decodes = @ + 1,
        !.stats.bits_processed = @ + result.length,
        !.stats.successful_decodes =
            IF result.was_decoded THEN @ + 1 ELSE @,
        !.stats.single_symbol_decodes =
            IF result.was_decoded /\ result.length = 1
               /\ self.single_symbol # None
            THEN @ + 1 ELSE @,
        !.stats.failed_decodes = IF result.was_decoded THEN @ ELSE @ + 1]

SingleDecoder__reset_state(self) ==
    [self EXCEPT !.current_node = self.decoding_tree]

\* decode: <<the result, the decoder after the call>>
SingleDecoder_decode(self, data, position) ==
    LET decoded_result == SingleDecoder__decode(self, data, position)
    IN  <<decoded_result,
          SingleDecoder__update_stats(SingleDecoder__reset_state(self),
                                      decoded_result)>>

SingleDecoder_reset_statistics(self) ==
    [self EXCEPT !.stats = DecodingStatistics]

----------------------------------------------------------------------------
(* predictors: StaticPredictor.py, DynamicPredictor.py, BasePredictor.py *)

Take(s, n) == SubSeq(s, 1, IF n < Len(s) THEN n ELSE Len(s))

RECURSIVE InsertSorted(_, _)
InsertSorted(s, x) ==
    IF s = <<>> THEN <<x>>
    ELSE IF x < Head(s) THEN <<x>> \o s
         ELSE <<Head(s)>> \o InsertSorted(Tail(s), x)

RECURSIVE sorted(_)
sorted(s) ==
    IF s = <<>> THEN <<>>
    ELSE InsertSorted(sorted(SubSeq(s, 1, Len(s) - 1)), s[Len(s)])

StaticPredictor(prediction_vector) ==
    [kind |-> "static", prediction_table |-> prediction_vector,
     context |-> <<>>, backup_variant |-> <<>>]

DynamicPredictor(assignment_table, initial_context, backup_variant) ==
    [kind |-> "dynamic", prediction_table |-> assignment_table,
     context |-> initial_context, backup_variant |-> sorted(backup_variant)]

implicitly_predict(self, n) ==
    IF self.kind = "static" THEN Take(self.prediction_table, n)
    ELSE IF DictHas(self.prediction_table, self.context)
         THEN Take(DictGet(self.prediction_table, self.context), n)
         ELSE Take(self.backup_variant, n)

\* feed: BasePredictor's no-op for a static predictor, the window rotation
\* tuple([*context[1:], current]) for a dynamic one
feed(self, current) ==
    IF self.kind = "static" THEN self
    ELSE [self EXCEPT !.context =
              (IF @ = <<>> THEN <<>> ELSE Tail(@)) \o <<current>>]

----------------------------------------------------------------------------
(* SpeculativeDecoder.py *)

SpeculativeDecoder(decoding_tree, width, predictor, chain_length_limit) ==
    [decoders |-> [i \in 1..(width + 1) |-> SingleDecoder(decoding_tree)],
     speculation_width |-> width,
     predictor |-> predictor,
     previous |-> None,
     current_position |-> 0,
     chain_length_limit |-> chain_length_limit]

\* flush that resets `previous` only
flush_keeps_position(self) == [self EXCEPT !.previous = None]

flush(self) == [self EXCEPT !.current_position = 0, !.previous = None]

\* attempts with the bound test `current_position + length < len(data) - 1`
RECURSIVE attempts_off_by_one(_, _, _, _, _, _)
attempts_off_by_one(decoders, bits, current_position, lengths, i, results) ==
    IF i > Len(lengths) THEN <<results, decoders>>
    ELSE IF current_position + lengths[i] < Len(bits) - 1
         THEN LET r == SingleDecoder_decode(decoders[i], bits,
                                            current_position + lengths[i])
              IN  attempts_off_by_one(
                      [decoders EXCEPT ![i] = r[2]], bits, current_position,
                      lengths, i + 1,
                      IF r[1].was_decoded
                      THEN DictSet(results, lengths[i], r[1]) ELSE results)
         ELSE attempts_off_by_one(decoders, bits, current_position, lengths,
                                  i + 1, results)

\* the attempts `for i, length in enumerate(lengths)` from index i (1-based):
\* <<results, decoders>>
RECURSIVE attempts(_, _, _, _, _, _)
attempts(decoders, bits, current_position, lengths, i, results) ==
    IF i > Len(lengths) THEN <<results, decoders>>
    ELSE IF current_position + lengths[i] < Len(bits)
         THEN LET r == SingleDecoder_decode(decoders[i], bits,
                                            current_position + lengths[i])
                  res == r[1]
              IN  attempts([decoders EXCEPT ![i] = r[2]], bits,
                           current_position, lengths, i + 1,
                           IF res.was_decoded
                           THEN DictSet(results, lengths[i], res)
                           ELSE results)
         ELSE attempts(decoders, bits, current_position, lengths, i + 1,
                       results)

\* stitch that takes every successful attempt, whether or not it starts where
\* the previous codeword ends
RECURSIVE stitch_with_gaps(_, _, _)
stitch_with_gaps(results, current_offset, current_sequence) ==
    IF results = <<>> THEN current_sequence
    ELSE stitch_with_gaps(Tail(results), current_offset,
                          Append(current_sequence, Head(results)[2]))

\* stitch that stops after the codeword at offset 0
stitch_once(results, current_offset, current_sequence) ==
    IF DictHas(results, current_offset)
    THEN Append(current_sequence, DictGet(results, current_offset))
    ELSE current_sequence

\* `while current_offset in results`
RECURSIVE stitch(_, _, _)
stitch(results, current_offset, current_sequence) ==
    IF DictHas(results, current_offset)
    THEN LET result == DictGet(results, current_offset)
         IN  stitch(results, current_offset + result.length,
                    Append(current_sequence, result))
    ELSE current_sequence

Contains(s, x) == \E i \in 1..Len(s) : s[i] = x

\* chain_at with truly_guessed comparing the first predicted length only
chain_at_first_prediction(self, bits, current_position) ==
    LET speculated_lengths ==
            implicitly_predict(self.predictor, self.speculation_width)
        lengths == <<0>> \o speculated_lengths
        tried == attempts(self.decoders, bits, current_position,
                          lengths, 1, <<>>)
        results == tried[1]
    IN  [speculated_lengths |-> speculated_lengths,
         results |-> results,
         decoding_chain |->
             IF DictHas(results, 0) THEN stitch(results, 0, <<>>)
             ELSE <<>>,
         truly_guessed |->
             IF DictHas(results, 0) /\ speculated_lengths # <<>>
                /\ speculated_lengths[1] = DictGet(results, 0).length
             THEN 1 ELSE 0,
         decoders |-> tried[2]]

\* speculate up to its truncation, entered with current_position < len(data):
\* the attempts, the stitched decoding_chain and truly_guessed
chain_at(self, bits, current_position) ==
    LET speculated_lengths ==
            implicitly_predict(self.predictor, self.speculation_width)
        lengths == <<0>> \o speculated_lengths
        tried == attempts(self.decoders, bits, current_position,
                          lengths, 1, <<>>)
        results == tried[1]
    IN  [speculated_lengths |-> speculated_lengths,
         results |-> results,
         decoding_chain |->
             IF DictHas(results, 0) THEN stitch(results, 0, <<>>)
             ELSE <<>>,
         truly_guessed |->
             IF DictHas(results, 0)
                /\ Contains(speculated_lengths, DictGet(results, 0).length)
             THEN 1 ELSE 0,
         decoders |-> tried[2]]

\* speculate that returns the whole chain whatever chain_length_limit is
speculate_unlimited(self, bits, current_position) ==
    IF current_position >= Len(bits)
    THEN [chain |-> <<>>, truly_guessed |-> 0, decoders |-> self.decoders]
    ELSE LET c == chain_at(self, bits, current_position)
         IN  [chain |-> c.decoding_chain,
              truly_guessed |-> c.truly_guessed,
              decoders |-> c.decoders]

\* speculate: [chain, truly_guessed, decoders], decoders being the attempt
\* decoders after the call (their statistics count the attempts)
speculate(self, bits, current_position) ==
    IF current_position >= Len(bits)
    THEN [chain |-> <<>>, truly_guessed |-> 0, decoders |-> self.decoders]
    ELSE LET c == chain_at(self, bits, current_position)
             limit == self.chain_length_limit
         IN  [chain |-> IF limit # None /\ limit # 0
                        THEN Take(c.decoding_chain, limit)
                        ELSE c.decoding_chain,
              truly_guessed |-> c.truly_guessed,
              decoders |-> c.decoders]

\* the locals of decode at its entry
Locals ==
    [tries |-> 0, successes |-> 0, decoded_symbols |-> <<>>,
     commited_codewords |-> <<>>, truly_predicted |-> <<>>]

\* one feed per round, with the total length of the chain
fed_lengths_per_round(results) ==
    <<SeqSum([i \in 1..Len(results) |-> results[i].length])>>

\* the arguments of the calls `self._predictor.feed(result.length)`, in order
fed_lengths(results) == [i \in 1..Len(results) |-> results[i].length]

RECURSIVE feed_each(_, _)
feed_each(predictor, lengths) ==
    IF lengths = <<>> THEN predictor
    ELSE feed_each(feed(predictor, Head(lengths)), Tail(lengths))

feed_all(predictor, results) == feed_each(predictor, fed_lengths(results))

\* commit that forgets `self._current_position += total_length`
commit_no_advance(self, locals, results, truly_predicted_local) ==
    [self |-> [self EXCEPT !.previous = results[1].symbol,
                           !.predictor = feed_all(@, results)],
     frame |-> [locals EXCEPT
         !.successes = @ + Len(results),
         !.commited_codewords = Append(@, Len(results)),
         !.truly_predicted = Append(@, truly_predicted_local),
         !.decoded_symbols =
             @ \o [i \in 1..Len(results) |-> results[i].symbol]],
     fed |-> fed_lengths(results),
     break |-> FALSE]

\* commit that feeds the predictor the first codeword of the chain only
commit_feeds_first(self, locals, results, truly_predicted_local) ==
    [self |-> [self EXCEPT
         !.previous = results[1].symbol,
         !.predictor = feed(@, results[1].length),
         !.current_position = @ + SeqSum(fed_lengths(results))],
     frame |-> [locals EXCEPT
         !.successes = @ + Len(results),
         !.commited_codewords = Append(@, Len(results)),
         !.truly_predicted = Append(@, truly_predicted_local),
         !.decoded_symbols =
             @ \o [i \in 1..Len(results) |-> results[i].symbol]],
     fed |-> fed_lengths(results),
     break |-> FALSE]

\* commit with `successes += 1` for `successes += len(results)`
commit_counts_rounds(self, locals, results, truly_predicted_local) ==
    [self |-> [self EXCEPT
         !.previous = results[1].symbol,
         !.predictor = feed_all(@, results),
         !.current_position = @ + SeqSum(fed_lengths(results))],
     frame |-> [locals EXCEPT
         !.successes = @ + 1,
         !.commited_codewords = Append(@, Len(results)),
         !.truly_predicted = Append(@, truly_predicted_local),
         !.decoded_symbols =
             @ \o [i \in 1..Len(results) |-> results[i].symbol]],
     fed |-> fed_lengths(results),
     break |-> FALSE]

\* the `if results:` branch of decode's loop: count and commit the chain,
\* feed the predictor, advance the position
commit(self, locals, results, truly_predicted_local) ==
    [self |-> [self EXCEPT
         !.previous = results[1].symbol,
         !.predictor = feed_all(@, results),
         !.current_position =
             @ + SeqSum([i \in 1..Len(results) |-> results[i].length])],
     frame |-> [locals EXCEPT
         !.successes = @ + Len(results),
         !.commited_codewords = Append(@, Len(results)),
         !.truly_predicted = Append(@, truly_predicted_local),
         !.decoded_symbols =
             @ \o [i \in 1..Len(results) |-> results[i].symbol]],
     fed |-> fed_lengths(results),
     break |-> FALSE]

\* iteration that steps over one bit instead of leaving the loop when the
\* chain is empty
iteration_skips_bit(self, locals, bits) ==
    LET spec == speculate(self, bits, self.current_position)
        tried == [self EXCEPT !.decoders = spec.decoders]
        counted == [locals EXCEPT !.tries = @ + self.speculation_width + 1]
    IN  IF spec.chain # <<>>
        THEN commit(tried, counted, spec.chain, spec.truly_guessed)
        ELSE [self |-> [tried EXCEPT !.current_position = @ + 1],
              frame |-> counted, fed |-> <<>>, break |-> FALSE]

\* one pass through the body of decode's while loop, entered with
\* current_position < len(data): [self, frame, fed, break], fed being the
\* lengths it passed to predictor.feed
iteration(self, locals, bits) ==
    LET spec == speculate(self, bits, self.current_position)
        tried == [self EXCEPT !.decoders = spec.decoders]
        counted == [locals EXCEPT !.tries = @ + self.speculation_width + 1]
    IN  IF spec.chain # <<>>
        THEN commit(tried, counted, spec.chain, spec.truly_guessed)
        ELSE [self |-> tried, frame |-> counted, fed |-> <<>>,
              break |-> TRUE]

\* what decode returns from its locals
ReturnValue(locals) ==
    <<locals.decoded_symbols, <<locals.successes, locals.tries>>,
      locals.commited_codewords, locals.truly_predicted>>

\* decode(bits) run to its return on the object self: <<return value, self>>
RECURSIVE run_decode(_, _, _)
run_decode(self, locals, bits) ==
    IF self.current_position < Len(bits)
    THEN LET it == iteration(self, locals, bits)
         IN  IF it.break THEN <<ReturnValue(it.frame), it.self>>
             ELSE run_decode(it.self, it.frame, bits)
    ELSE <<ReturnValue(locals), self>>

----------------------------------------------------------------------------
(* The trees the decoders are driven on *)

BitStrings(n) == UNION {[1..k -> {"0", "1"}] : k \in 0..n}

\* hand-made code tables over 'a', 'b': any non-empty codes, complete or
\* not, prefix-free or not, of MaxCodeLen + 1 bits together
CodeTables ==
    {<<<<97, c>>>> : c \in BitStrings(MaxCodeLen) \ {<<>>}}
    \cup {<<<<97, t[1]>>, <<98, t[2]>>>> :
              t \in {u \in (BitStrings(MaxCodeLen) \ {<<>>})
                              \X (BitStrings(MaxCodeLen) \ {<<>>}) :
                         Len(u[1]) + Len(u[2]) <= MaxCodeLen + 1}}

\* histograms giving the tree shapes of up to three symbols: a bare leaf,
\* two leaves, and three leaves with the short code on either side
DecoderHistograms ==
    {<<<<97, 1>>>>,
     <<<<97, 1>>, <<98, 1>>>>,
     <<<<97, 1>>, <<98, 1>>, <<99, 1>>>>,
     S1_histogram}

\* what the simulator and the scripts decode with
DecodingTrees ==
    {build_decoding_tree(generate(H)) :
        H \in {G \in Histograms : Len(G) = 1} \cup DecoderHistograms}

\* Huffman trees handed to a decoder directly
HuffmanTrees ==
    {build_huffman_tree(H) : H \in {G \in Histograms : Len(G) <= 1}}
    \cup {build_huffman_tree(S1_histogram)}

HandMadeTrees == {build_decoding_tree(c) : c \in CodeTables}

Trees == DecodingTrees \cup HuffmanTrees \cup HandMadeTrees

----------------------------------------------------------------------------
(* The single-symbol decoder driven on bounded inputs *)

Strings(n) == UNION {[1..k -> {"0", "1", "x"}] : k \in 0..n}

SIdle ==
    /\ single = SingleDecoder(Nil)
    /\ single_data = <<>>
    /\ single_call = <<>>
    /\ single_result = SingleDecodingResult(FALSE, None, 0)
    /\ single_returned = <<>>

SInit ==
    /\ single \in {SingleDecoder(t) : t \in Trees \cup {Nil}}
    /\ single_data \in Strings(MaxChars)
    /\ single_call = <<>>
    /\ single_result = SingleDecodingResult(FALSE, None, 0)
    /\ single_returned = <<>>

SingleDecode ==
    /\ single.stats.total_decodes < MaxDecodes
    /\ \E position \in 0..(Len(single_data) + 1) :
          LET r == SingleDecoder_decode(single, single_data, position)
          IN  /\ single_result' = r[1]
              /\ single' = r[2]
              /\ single_call' = <<position>>
              /\ single_returned' = Append(single_returned, r[1])
    /\ UNCHANGED <<single_data, hvars, dvars,
                   ovars, pvars, tvars>>

SingleResetStatistics ==
    /\ single_call # <<>>
    /\ single' = SingleDecoder_reset_statistics(single)
    /\ single_call' = <<>>
    /\ single_returned' = <<>>
    /\ UNCHANGED <<single_data, single_result, hvars, dvars,
                   ovars, pvars, tvars>>

SNext == SingleDecode \/ SingleResetStatistics

----------------------------------------------------------------------------
(* The speculative decoder driven on bounded inputs *)

\* hand-made code tables whose trees miss a child or carry a symbol on an
\* inner node
DecoderTables ==
    {<<<<97, <<"1">>>>>>,
     <<<<97, <<"0", "1">>>>>>,
     <<<<97, <<"0">>>>, <<98, <<"1", "0">>>>>>,
     <<<<97, <<"0", "0">>>>, <<98, <<"1">>>>>>,
     <<<<97, <<"0">>>>, <<98, <<"0", "1">>>>>>}

DecoderTrees ==
    {build_decoding_tree(generate(H)) : H \in DecoderHistograms}
    \cup {build_huffman_tree(H) : H \in DecoderHistograms}
    \cup {build_decoding_tree(c) : c \in DecoderTables}
    \cup {Nil}

Widths == {1, 2}
Limits == {None, 1, 2}

\* predicted offsets; one of Len(bits) - current_position or more is never
\* attempted
Offsets == 0..(MaxBits - 1)

StaticPredictors ==
    {StaticPredictor(v) : v \in UNION {[1..n -> Offsets] : n \in 0..2}}

AssignmentTables ==
    {<<<<<<1>>, <<1, 2>>>>>>,
     <<<<<<1>>, <<2>>>>, <<<<2>>, <<1, 3>>>>>>}

DynamicPredictors ==
    {DynamicPredictor(t, c, <<2, 1>>) :
        t \in AssignmentTables, c \in {<<>>, <<1>>, <<2>>}}

Construction(tree, w, predictor, limit) ==
    [decoding_tree |-> tree, speculation_width |-> w,
     predictor |-> predictor, chain_length_limit |-> limit]

Construct(c) ==
    SpeculativeDecoder(c.decoding_tree, c.speculation_width, c.predictor,
                       c.chain_length_limit)

\* scenario S1: the encoding of 'abacab', w = 2, static predictor (1, 2)
S1_construction ==
    {Construction(build_decoding_tree(generate(S1_histogram)), 2,
                  StaticPredictor(<<1, 2>>), l) : l \in Limits}
S1_bits == encode(S1_input, generate(S1_histogram)).value

\* scenario S2: histogram {x: 1}, bits '0000', w = 3, no chain limit, any
\* three predicted offsets
S2_histogram == <<<<97, 1>>>>
S2_bits == <<"0", "0", "0", "0">>
S2_construction ==
    {Construction(t, 3, StaticPredictor(v), None) :
        t \in {build_huffman_tree(S2_histogram),
               build_decoding_tree(generate(S2_histogram))},
        v \in [1..3 -> Offsets]}

\* the state after construction, before any call
Constructed(c, bitstrings, allowed) ==
    /\ constructed = c
    /\ sd = Construct(c)
    /\ inputs = bitstrings
    /\ calls_allowed = allowed
    /\ call_data = <<>>
    /\ frame = Locals
    /\ pc = "idle"
    /\ calls = 0
    /\ after_flush = FALSE
    /\ fed = <<>>

DIdle == Constructed(Construction(Nil, 0, StaticPredictor(<<>>), None),
                     {}, 0)

\* one decode call on a new decoder
DInit ==
    \/ \E t \in DecoderTrees, w \in Widths, l \in Limits,
          p \in StaticPredictors \cup DynamicPredictors :
          Constructed(Construction(t, w, p, l), BitStrings(MaxBits), 1)
    \/ \E c \in S1_construction : Constructed(c, {S1_bits}, 1)
    \/ \E c \in S2_construction : Constructed(c, {S2_bits}, 1)

\* decode calls and flushes in any order
FlushTrees ==
    {build_decoding_tree(generate(H)) :
        H \in {<<<<97, 1>>, <<98, 1>>>>, S1_histogram}}
FlushPredictors ==
    {StaticPredictor(<<1, 2>>), StaticPredictor(<<2>>)}
    \cup DynamicPredictors
FlushInputs ==
    {<<"1">>, <<"0", "1">>, <<"1", "0", "1">>, <<"0", "0", "1", "1">>}

FInit ==
    \E t \in FlushTrees, w \in Widths, l \in {None, 1},
       p \in FlushPredictors :
       Constructed(Construction(t, w, p, l), FlushInputs, MaxCalls)

DecodeCall ==
    /\ pc \in {"idle", "flushed", "returned"}
    /\ calls < calls_allowed
    /\ \E b \in inputs : call_data' = b
    /\ frame' = Locals
    /\ pc' = "loop"
    /\ calls' = calls + 1
    /\ after_flush' = (pc = "flushed")
    /\ fed' = <<>>
    /\ UNCHANGED <<sd, constructed, inputs, calls_allowed, hvars, svars,
                   ovars, pvars, tvars>>

DecodeRound ==
    /\ pc = "loop"
    /\ sd.current_position < Len(call_data)
    /\ \E it \in {iteration(sd, frame, call_data)} :
           /\ sd' = it.self
           /\ frame' = it.frame
           /\ pc' = IF it.break THEN "returned" ELSE "loop"
           /\ fed' = fed \o it.fed
    /\ UNCHANGED <<call_data, constructed, inputs, calls, calls_allowed,
                   after_flush, hvars, svars,
                   ovars, pvars, tvars>>

DecodeExit ==
    /\ pc = "loop"
    /\ sd.current_position >= Len(call_data)
    /\ pc' = "returned"
    /\ UNCHANGED <<sd, call_data, frame, constructed, inputs, calls,
                   calls_allowed, after_flush, fed, hvars, svars,
                   ovars, pvars, tvars>>

Flush ==
    /\ pc \in {"idle", "returned"}
    /\ sd' = flush(sd)
    /\ pc' = "flushed"
    /\ UNCHANGED <<call_data, frame, constructed, inputs, calls,
                   calls_allowed, after_flush, fed, hvars, svars,
                   ovars, pvars, tvars>>

DNext == DecodeCall \/ DecodeRound \/ DecodeExit

FNext == DecodeCall \/ DecodeRound \/ DecodeExit \/ Flush

----------------------------------------------------------------------------
(* theory/simple: SimpleProbabilisticScheme.py, SimpleStatisticalCalculations.py *)

\* a probability is kept as its numerator over Denominator; an expectation
\* of width w as its numerator over Denominator^w
Denominator == 10

RECURSIVE Power(_, _)
Power(b, e) == IF e = 0 THEN 1 ELSE b * Power(b, e - 1)

SimpleProbabilisticScheme(outcomes, probabilities) ==
    [outcomes |-> outcomes, probabilities |-> probabilities]

\* outcomes.index(outcome) is the first position that holds outcome
SimpleProbabilisticScheme_p(self, outcome) ==
    IF \E i \in 1..Len(self.outcomes) : self.outcomes[i] = outcome
    THEN self.probabilities[
             CHOOSE i \in 1..Len(self.outcomes) :
                 /\ self.outcomes[i] = outcome
                 /\ \A j \in 1..(i - 1) : self.outcomes[j] # outcome]
    ELSE 0

\* sorted(pairs, key=lambda x: x[1], reverse=True): the sort is stable, pairs
\* with equal keys keep their order
RECURSIVE insert_by_second(_, _)
insert_by_second(s, x) ==
    IF s = <<>> THEN <<x>>
    ELSE IF x[2] > Head(s)[2] THEN <<x>> \o s
         ELSE <<Head(s)>> \o insert_by_second(Tail(s), x)

RECURSIVE sorted_by_second_reversed(_)
sorted_by_second_reversed(s) ==
    IF s = <<>> THEN <<>>
    ELSE insert_by_second(sorted_by_second_reversed(SubSeq(s, 1, Len(s) - 1)),
                          s[Len(s)])

get_top(self, n) ==
    LET outcomes_and_probabilities ==
            sorted_by_second_reversed(
                [i \in 1..Len(self.outcomes) |->
                    <<self.outcomes[i],
                      SimpleProbabilisticScheme_p(self, self.outcomes[i])>>])
    IN  IF n > Len(outcomes_and_probabilities)
        THEN Raised(<<>>)
        ELSE Returned([i \in 1..n |-> outcomes_and_probabilities[i][1]])

\* tuple((np.array(l_vec) - l_vec[i])[i + 1:]), i counted from 1 here
new_l_vec_not_shifted(l_vec, i) ==
    [j \in 1..(Len(l_vec) - i) |-> l_vec[j + i]]

new_l_vec(l_vec, i) ==
    [j \in 1..(Len(l_vec) - i) |-> l_vec[j + i] - l_vec[i]]

RECURSIVE expectation_sorted(_, _, _)
expectation_sorted(self, w, l_vec) ==
    LET RECURSIVE res(_)
        res(i) ==
            IF i = 0 THEN 0
            ELSE res(i - 1)
                 + SimpleProbabilisticScheme_p(self, l_vec[i])
                   * (Power(Denominator, w - 1)
                      + Power(Denominator, i - 1)
                        * expectation_sorted(self, w - i, new_l_vec(l_vec, i)))
    IN  IF w = 0 THEN 0 ELSE res(w)

score(self, w, l_vec) == expectation_sorted(self, w, sorted(l_vec))

\* expectation_sorted as @cache runs it: a call whose key <<w, l_vec>> is in
\* the cache returns the value kept there, any other call runs the body, its
\* inner calls going through the cache as well, and stores what it returns;
\* <<value, cache>>
RECURSIVE expectation_sorted_loop(_, _, _, _, _, _)
RECURSIVE expectation_sorted_cached(_, _, _, _)
expectation_sorted_cached(self, cache, w, l_vec) ==
    IF DictHas(cache, <<w, l_vec>>)
    THEN <<DictGet(cache, <<w, l_vec>>), cache>>
    ELSE IF w = 0 THEN <<0, DictSet(cache, <<w, l_vec>>, 0)>>
    ELSE LET r == expectation_sorted_loop(self, cache, w, l_vec, 1, 0)
         IN  <<r[1], DictSet(r[2], <<w, l_vec>>, r[1])>>

\* the loop that adds the terms with `1 +` left out
expectation_sorted_loop_without_one(self, cache, w, l_vec, i, res) ==
    IF i > w THEN <<res, cache>>
    ELSE LET inner == expectation_sorted_cached(self, cache, w - i,
                                                new_l_vec(l_vec, i))
         IN  expectation_sorted_loop(
                 self, inner[2], w, l_vec, i + 1,
                 res + SimpleProbabilisticScheme_p(self, l_vec[i])
                       * Power(Denominator, i - 1) * inner[1])

\* `for i in range(w)` from index i (1-based) with res so far
expectation_sorted_loop(self, cache, w, l_vec, i, res) ==
    IF i > w THEN <<res, cache>>
    ELSE LET inner == expectation_sorted_cached(self, cache, w - i,
                                                new_l_vec(l_vec, i))
         IN  expectation_sorted_loop(
                 self, inner[2], w, l_vec, i + 1,
                 res + SimpleProbabilisticScheme_p(self, l_vec[i])
                       * (Power(Denominator, w - 1)
                          + Power(Denominator, i - 1) * inner[1]))

----------------------------------------------------------------------------
(* theory/KGramModel.py *)

\* d[k] += v on a defaultdict(int): a missing key starts from 0
DictInc(d, k, v) ==
    IF DictHas(d, k) THEN DictSet(d, k, DictGet(d, k) + v)
    ELSE DictSet(d, k, v)

KGramModel(k) ==
    [k |-> k,
     frequencies |-> <<>>,
     context |-> [i \in 1..k |-> None],
     is_ok |-> FALSE,
     alphabet |-> {},
     outcome_frequencies |-> <<>>]

\* feed that counts the first window without a sentinel as well
KGramModel_feed_counts_first_window(self, symbol) ==
    IF self.context = <<>> THEN Raised(self)
    ELSE LET context == Append(Tail(self.context), symbol)
             counted ==
                 [self EXCEPT !.context = context,
                              !.outcome_frequencies = DictInc(@, symbol, 1),
                              !.alphabet = @ \cup {symbol}]
         IN  Returned(
                 IF ~Contains(context, None)
                 THEN [counted EXCEPT
                          !.frequencies = DictInc(@, context, 1),
                          !.is_ok = TRUE]
                 ELSE counted)

\* feed: the model after the call; `self._context.pop(0)` raises IndexError
\* on the empty window of k = 0, before anything is recorded
KGramModel_feed(self, symbol) ==
    IF self.context = <<>> THEN Raised(self)
    ELSE LET context == Append(Tail(self.context), symbol)
             counted ==
                 [self EXCEPT !.context = context,
                              !.outcome_frequencies = DictInc(@, symbol, 1),
                              !.alphabet = @ \cup {symbol}]
         IN  Returned(
                 IF self.is_ok
                 THEN [counted EXCEPT !.frequencies = DictInc(@, context, 1)]
                 ELSE IF ~Contains(context, None)
                      THEN [counted EXCEPT !.is_ok = TRUE]
                      ELSE counted)

RECURSIVE train(_, _)
train(self, sample) ==
    IF sample = <<>> THEN Returned(self)
    ELSE LET r == KGramModel_feed(self, Head(sample))
         IN  IF r.raised THEN r ELSE train(r.value, Tail(sample))

number_of_outcomes(self) == Len(self.outcome_frequencies)

most_frequent_outcomes(self, n) ==
    LET s == sorted_by_second_reversed(self.outcome_frequencies)
    IN  [i \in 1..(IF n < Len(s) THEN n ELSE Len(s)) |-> s[i][1]]

----------------------------------------------------------------------------
(* theory/conditional/ConditionalProbabilisticScheme.py *)

\* the first loop of __init__ from item i of k_gram.frequencies.items():
\* <<_map, _context_count>>
RECURSIVE count_k_grams(_, _, _, _)
count_k_grams(items, i, map, context_count) ==
    IF i > Len(items) THEN <<map, context_count>>
    ELSE LET k_gram == items[i][1]
             frequency == items[i][2]
             context == SubSeq(k_gram, 1, Len(k_gram) - 1)
             outcome == k_gram[Len(k_gram)]
             inner == IF DictHas(map, context) THEN DictGet(map, context)
                      ELSE <<>>
         IN  count_k_grams(
                 items, i + 1,
                 DictSet(map, context, DictInc(inner, outcome, frequency)),
                 DictInc(context_count, context, frequency))

\* a probability of _map[context] is kept as its numerator over the count of
\* the context, which the division leaves in the order of the numerators; a
\* probability of a context is <<its count, the total count>>
ConditionalProbabilisticScheme(k_gram) ==
    LET counted == count_k_grams(k_gram.frequencies, 1, <<>>, <<>>)
        total_contexts ==
            SeqSum([i \in 1..Len(counted[2]) |-> counted[2][i][2]])
    IN  [model |-> k_gram,
         map |-> counted[1],
         context_count |-> counted[2],
         context_probability |->
             [i \in 1..Len(counted[2]) |->
                 <<counted[2][i][1], <<counted[2][i][2], total_contexts>>>>]]

\* p: <<the value, the scheme after the call>>; _map[context] is a
\* defaultdict(float), which stores 0.0 under an outcome it is asked for and
\* does not hold
ConditionalProbabilisticScheme_p(self, outcome, context) ==
    IF DictHas(self.map, context)
    THEN LET inner == DictGet(self.map, context)
         IN  IF DictHas(inner, outcome)
             THEN <<DictGet(inner, outcome), self>>
             ELSE <<0, [self EXCEPT
                           !.map = DictSet(@, context,
                                           DictSet(inner, outcome, 0))]>>
    ELSE <<0, self>>

\* p_context: _context_probability is a defaultdict(float) as well
p_context(self, context) ==
    IF DictHas(self.context_probability, context)
    THEN <<DictGet(self.context_probability, context), self>>
    ELSE <<<<0, 1>>,
           [self EXCEPT !.context_probability =
                            DictSet(@, context, <<0, 1>>)]>>

most_frequent_outcomes_on_context(self, n, context) ==
    Take(sorted_by_second_reversed(DictGet(self.map, context)), n)

\* `for outcome in outcomes: ...` of build_assignment_table
RECURSIVE pad(_, _, _)
pad(vec, outcomes, n) ==
    IF outcomes = <<>> THEN vec
    ELSE LET appended == IF Contains(vec, Head(outcomes)) THEN vec
                         ELSE Append(vec, Head(outcomes))
         IN  IF Len(appended) = n THEN appended
             ELSE pad(appended, Tail(outcomes), n)

\* the entry of one context that is never padded
assignment_without_padding(self, n, context) ==
    LET mfo == most_frequent_outcomes_on_context(self, n, context)
    IN  sorted([i \in 1..Len(mfo) |-> mfo[i][1]])

\* the tuple build_assignment_table(n) stores for one context
assignment(self, n, context) ==
    LET outcomes == most_frequent_outcomes(self.model,
                                           number_of_outcomes(self.model))
        mfo == most_frequent_outcomes_on_context(self, n, context)
        vec == [i \in 1..Len(mfo) |-> mfo[i][1]]
    IN  sorted(IF Len(vec) < n THEN pad(vec, outcomes, n) ELSE vec)

\* build_assignment_table(n): max() of the empty list raises ValueError when
\* a context has no outcome to offer (n = 0)
build_assignment_table(self, n) ==
    IF \E i \in 1..Len(self.map) :
           most_frequent_outcomes_on_context(self, n, self.map[i][1]) = <<>>
    THEN Raised(<<>>)
    ELSE Returned([i \in 1..Len(self.map) |->
                      <<self.map[i][1],
                        assignment(self, n, self.map[i][1])>>])

----------------------------------------------------------------------------
(* optimizers/VariantsGenerator.py *)

Elements(s) == {s[i] : i \in 1..Len(s)}

\* sorted(a set of integers), as a tuple
RECURSIVE sorted_set(_)
sorted_set(S) ==
    IF S = {} THEN <<>>
    ELSE LET least == CHOOSE x \in S : \A y \in S : x <= y
         IN  <<least>> \o sorted_set(S \ {least})

\* _get_j_set(j): every sum of exactly j of the lengths
RECURSIVE _get_j_set(_, _)
_get_j_set(lengths, j) ==
    IF j = 0 THEN {0}
    ELSE {l_base + l_r : l_base \in Elements(lengths),
                         l_r \in _get_j_set(lengths, j - 1)}

\* the body of get_baseline_set taking the sums of exactly j lengths only
baseline_frame_exactly_j(lengths, n, j) ==
    LET result == _get_j_set(lengths, j)
    IN  IF Cardinality(result) < n
        THEN [recurse |-> TRUE, value |-> <<>>]
        ELSE [recurse |-> FALSE, value |-> Take(sorted_set(result), n)]

\* the body of one get_baseline_set(n, j) frame: it either calls
\* get_baseline_set(n, j + 1) and returns what that returns, or returns
baseline_frame(lengths, n, j) ==
    LET result == UNION {_get_j_set(lengths, k) : k \in 1..j}
    IN  IF Cardinality(result) < n
        THEN [recurse |-> TRUE, value |-> <<>>]
        ELSE [recurse |-> FALSE, value |-> Take(sorted_set(result), n)]

----------------------------------------------------------------------------
(* optimizers/SimpleOptimizer.py *)

\* best_variant is None until a result has been taken
NoVariant == [is_none |-> TRUE, value |-> <<>>]
Variant(v) == [is_none |-> FALSE, value |-> v]

_calculate_score(self, w, variant) == <<score(self, w, variant), variant>>

\* the body of optimize's for loop: `if score > best_score`
take_result(best, result) ==
    IF result[1] > best[1]
    THEN <<result[1], Variant(result[2])>>
    ELSE best

----------------------------------------------------------------------------
(* SimpleOptimizer.optimize driven over schemes, widths and variant lists;
   the pool hands the results over in the order the workers finish *)

Schemes ==
    {SimpleProbabilisticScheme(<<1, 2>>, <<a, Denominator - a>>) :
        a \in 0..Denominator}

OptWidths == {1, 2}

\* the candidate offsets: sums of at most two of the lengths 1 and 2, less 4
Sums == 1..3

\* what generate_v_set makes of them: sorted tuples of w distinct sums
LVectors(w) ==
    {v \in [1..w -> Sums] : \A i \in 1..(w - 1) : v[i] < v[i + 1]}

VariantLists(w) ==
    {l \in UNION {[1..k -> LVectors(w)] : k \in 1..MaxVariants} :
        \A i, j \in 1..Len(l) : i # j => l[i] # l[j]}

OIdle ==
    /\ scheme = SimpleProbabilisticScheme(<<>>, <<>>)
    /\ opt_w = 0
    /\ variants = <<>>
    /\ unserved = {}
    /\ best_score = 0
    /\ best_variant = NoVariant
    /\ ostep = "idle"

OInit ==
    /\ scheme \in Schemes
    /\ opt_w \in OptWidths
    /\ variants \in VariantLists(opt_w)
    /\ unserved = {}
    /\ best_score = 0
    /\ best_variant = NoVariant
    /\ ostep = "start"

\* best_score = 0, best_variant = None, the pool is given every variant
OptimizeCall ==
    /\ ostep = "start"
    /\ best_score' = 0
    /\ best_variant' = NoVariant
    /\ unserved' = 1..Len(variants)
    /\ ostep' = "pool"
    /\ UNCHANGED <<scheme, opt_w, variants, hvars, svars, dvars, pvars, tvars>>

\* one pass of the for loop over imap_unordered: any result not yet served
ResultArrives ==
    /\ ostep = "pool"
    /\ \E i \in unserved :
           LET best == take_result(<<best_score, best_variant>>,
                                   _calculate_score(scheme, opt_w, variants[i]))
           IN  /\ best_score' = best[1]
               /\ best_variant' = best[2]
               /\ unserved' = unserved \ {i}
    /\ UNCHANGED <<scheme, opt_w, variants, ostep, hvars, svars, dvars, pvars, tvars>>

OptimizeReturn ==
    /\ ostep = "pool"
    /\ unserved = {}
    /\ ostep' = "returned"
    /\ UNCHANGED <<scheme, opt_w, variants, unserved, best_score,
                   best_variant, hvars, svars, dvars, pvars, tvars>>

ONext == OptimizeCall \/ ResultArrives \/ OptimizeReturn

----------------------------------------------------------------------------
(* DynamicPredictor driven on its own: feed and implicitly_predict in any
   order *)

FedLengths == {1, 2}

PredictorTables ==
    AssignmentTables
    \cup {<<<<<<1>>, <<2>>>>>>,
          <<<<<<>>, <<1, 2>>>>>>,
          <<<<<<1, 2>>, <<2, 3>>>>, <<<<2, 1>>, <<1>>>>>>}

InitialContexts == SequencesOver(FedLengths, 2)

PIdle ==
    /\ dp = DynamicPredictor(<<>>, <<>>, <<>>)
    /\ context0 = <<>>
    /\ feeds = <<>>
    /\ prediction = <<>>

PInit ==
    /\ context0 \in InitialContexts
    /\ \E t \in PredictorTables :
           dp = DynamicPredictor(t, context0, <<3, 1>>)
    /\ feeds = <<>>
    /\ prediction = <<>>

Feed ==
    /\ Len(feeds) < MaxFeeds
    /\ \E current \in FedLengths :
           /\ dp' = feed(dp, current)
           /\ feeds' = Append(feeds, current)
    /\ prediction' = <<>>
    /\ UNCHANGED <<context0, hvars, svars, dvars, ovars, tvars>>

ImplicitlyPredict ==
    /\ \E n \in 0..2 : prediction' = <<n, implicitly_predict(dp, n)>>
    /\ UNCHANGED <<dp, context0, feeds, hvars, svars, dvars, ovars, tvars>>

PNext == Feed \/ ImplicitlyPredict

----------------------------------------------------------------------------
(* expectation_sorted called on one calculator again and again, the cache
   filling up *)

\* strictly increasing vectors of w offsets
IncreasingVectors(w) ==
    {v \in [1..w -> 1..MaxOffset] : \A i \in 1..(w - 1) : v[i] < v[i + 1]}

\* the scheme of the worked example: outcomes [1, 2, 3] with probabilities
\* [0.5, 0.3, 0.2]
ExampleScheme == SimpleProbabilisticScheme(<<1, 2, 3>>, <<5, 3, 2>>)

CalcSchemes ==
    {ExampleScheme,
     SimpleProbabilisticScheme(<<2, 1>>, <<5, 5>>),
     SimpleProbabilisticScheme(<<1, 3>>, <<0, 10>>)}

EIdle ==
    /\ calc_scheme = SimpleProbabilisticScheme(<<>>, <<>>)
    /\ calc_cache = <<>>
    /\ calc_call = <<>>
    /\ calc_calls = 0

ExpInit ==
    /\ calc_scheme \in CalcSchemes
    /\ calc_cache = <<>>
    /\ calc_call = <<>>
    /\ calc_calls = 0

ExpectationSorted ==
    /\ calc_calls < MaxQueries
    /\ \E w \in 0..MaxOffset :
       \E l_vec \in IncreasingVectors(w) :
       \E r \in {expectation_sorted_cached(calc_scheme, calc_cache, w, l_vec)} :
           /\ calc_call' = <<w, l_vec, r[1]>>
           /\ calc_cache' = r[2]
    /\ calc_calls' = calc_calls + 1
    /\ UNCHANGED <<calc_scheme, not_evars>>

ExpNext == ExpectationSorted

----------------------------------------------------------------------------
(* get_top on a scheme, and one get_baseline_set call followed frame by
   frame *)

TopSchemes ==
    CalcSchemes \cup {SimpleProbabilisticScheme(<<1, 2, 3>>, <<4, 2, 4>>),
                      SimpleProbabilisticScheme(<<>>, <<>>)}

\* the code lengths a generator is made with; [] and [0] give no sums to
\* grow
LengthLists ==
    {<<>>, <<0>>, <<1>>, <<2>>, <<1, 2>>, <<2, 1>>, <<2, 3>>, <<1, 3>>}

GIdle ==
    /\ top_scheme = SimpleProbabilisticScheme(<<>>, <<>>)
    /\ top_call = <<>>
    /\ gen_lengths = <<>>
    /\ gen_n = 0
    /\ gen_j0 = 0
    /\ gen_j = 0
    /\ gen_result = <<0>>

GInit ==
    /\ top_scheme \in TopSchemes
    /\ top_call = <<>>
    /\ gen_lengths \in LengthLists
    /\ gen_n \in 1..MaxLevels
    /\ gen_j0 \in 1..2
    /\ gen_j = gen_j0
    /\ gen_result = <<>>

GetTop ==
    /\ \E n \in 0..(Len(top_scheme.outcomes) + 1) :
           top_call' = <<n, get_top(top_scheme, n)>>
    /\ UNCHANGED <<top_scheme, gen_lengths, gen_n, gen_j0, gen_j, gen_result,
                   not_gvars>>

\* the innermost frame of get_baseline_set runs: a return runs through every
\* frame below it
GetBaselineSet ==
    /\ gen_result = <<>>
    /\ gen_j < gen_j0 + MaxLevels
    /\ \E f \in {baseline_frame(gen_lengths, gen_n, gen_j)} :
           IF f.recurse
           THEN /\ gen_j' = gen_j + 1
                /\ UNCHANGED gen_result
           ELSE /\ gen_result' = <<f.value>>
                /\ UNCHANGED gen_j
    /\ UNCHANGED <<top_scheme, top_call, gen_lengths, gen_n, gen_j0,
                   not_gvars>>

GNext == GetTop \/ GetBaselineSet

----------------------------------------------------------------------------
(* a KGramModel fed symbol by symbol; a scheme made from a trained model,
   queried and asked for its assignment table *)

FedSymbols == 1..3

\* what a model is trained on: the sample of the worked example and every
\* sample of up to MaxTrain - 1 symbols
Samples ==
    {<<1, 2, 1, 2, 1, 2>>}
    \cup UNION {[1..m -> 1..2] : m \in 0..(MaxTrain - 1)}
    \cup {<<1, 2, 3, 1, 3, 3, 2>>, <<3, 1, 1>>}

KIdle ==
    /\ kg = KGramModel(0)
    /\ kg_fed = <<>>
    /\ cps = ConditionalProbabilisticScheme(KGramModel(0))
    /\ cps_inserted = 0
    /\ cps_table = <<>>

\* a model just made
KInit ==
    /\ \E k \in 0..MaxOrder : kg = KGramModel(k)
    /\ kg_fed = <<>>
    /\ cps = ConditionalProbabilisticScheme(KGramModel(0))
    /\ cps_inserted = 0
    /\ cps_table = <<>>

KFeed ==
    /\ Len(kg_fed) < MaxTrain
    /\ \E symbol \in FedSymbols :
           /\ kg' = KGramModel_feed(kg, symbol).value
           /\ kg_fed' = Append(kg_fed, symbol)
    /\ UNCHANGED <<cps, cps_inserted, cps_table, not_kvars>>

KNext == KFeed

\* a scheme just made from a trained model
CInit ==
    /\ \E k \in 1..MaxOrder, sample \in Samples :
           /\ kg = train(KGramModel(k), sample).value
           /\ kg_fed = sample
    /\ cps = ConditionalProbabilisticScheme(kg)
    /\ cps_inserted = 0
    /\ cps_table = <<>>

\* the contexts and outcomes the queries are made with: every context of
\* the model's order, seen in training or not
QueryContexts == [1..(kg.k - 1) -> FedSymbols]
QueryOutcomes == FedSymbols \cup {5}

P ==
    /\ \E outcome \in QueryOutcomes, context \in QueryContexts :
       \E r \in {ConditionalProbabilisticScheme_p(cps, outcome, context)} :
           /\ r[2] # cps => cps_inserted < MaxInserted
           /\ cps' = r[2]
           /\ cps_inserted' = IF r[2] # cps THEN cps_inserted + 1
                               ELSE cps_inserted
    /\ UNCHANGED <<kg, kg_fed, cps_table, not_kvars>>

PContext ==
    /\ \E context \in QueryContexts :
       \E r \in {p_context(cps, context)} :
           /\ r[2] # cps => cps_inserted < MaxInserted
           /\ cps' = r[2]
           /\ cps_inserted' = IF r[2] # cps THEN cps_inserted + 1
                               ELSE cps_inserted
    /\ UNCHANGED <<kg, kg_fed, cps_table, not_kvars>>

BuildAssignmentTable ==
    /\ \E n \in 0..3 : cps_table' = <<n, build_assignment_table(cps, n)>>
    /\ UNCHANGED <<kg, kg_fed, cps, cps_inserted, not_kvars>>

CNext == P \/ PContext \/ BuildAssignmentTable

----------------------------------------------------------------------------
(* scripts/context_free.py: the expected rate of a vector beside the rounds
   of a decoder that predicts with it *)

\* a source: a code table and, symbol by symbol, the probability of the
\* symbol as a numerator over Denominator
Source(codes, weights) == [codes |-> codes, weights |-> weights]

Sources ==
    {Source(<<<<97, <<"0">>>>, <<98, <<"1", "0">>>>,
              <<99, <<"1", "1", "0">>>>, <<100, <<"1", "1", "1">>>>>>,
            <<5, 3, 1, 1>>),
     Source(<<<<97, <<"0">>>>, <<98, <<"1", "0">>>>, <<99, <<"1", "1">>>>>>,
            <<4, 3, 3>>),
     Source(<<<<97, <<"0">>>>, <<98, <<"1">>>>>>, <<5, 5>>)}

\* length_probabilities of the script: the probability of each codeword
\* length, the lengths in the order of their first symbol
RECURSIVE length_probabilities(_, _, _)
length_probabilities(source, i, acc) ==
    IF i > Len(source.codes) THEN acc
    ELSE length_probabilities(
             source, i + 1,
             DictInc(acc, Len(source.codes[i][2]), source.weights[i]))

scheme_of(source) ==
    LET items == sorted_by_second_reversed(
                     length_probabilities(source, 1, <<>>))
    IN  SimpleProbabilisticScheme([i \in 1..Len(items) |-> items[i][1]],
                                  [i \in 1..Len(items) |-> items[i][2]])

\* inputs are MaxOffset + 1 symbols long: every offset of a vector then lies
\* inside the bit string, and so does every codeword a chain can hold
InputLength == MaxOffset + 1

\* the input after `data` in the order of the symbol indices, <<>> after
\* the last
RECURSIVE next_input(_, _)
next_input(data, symbols) ==
    IF data = <<>> THEN <<>>
    ELSE IF data[Len(data)] < symbols
         THEN [data EXCEPT ![Len(data)] = @ + 1]
         ELSE LET front == next_input(SubSeq(data, 1, Len(data) - 1),
                                      symbols)
              IN  IF front = <<>> THEN <<>> ELSE Append(front, 1)

\* the probability of an input, a numerator over Denominator^InputLength
RECURSIVE weight(_, _)
weight(source, data) ==
    IF data = <<>> THEN 1
    ELSE source.weights[Head(data)] * weight(source, Tail(data))

\* the codewords one speculate round at position 0 commits on the encoding
\* of an input, the decoder made as the script makes it
commited_in_round(source, L, data) ==
    LET message == [i \in 1..Len(data) |-> source.codes[data[i]][1]]
        bits == encode(message, source.codes).value
        decoder == SpeculativeDecoder(build_decoding_tree(source.codes),
                                      Len(L), StaticPredictor(L), None)
    IN  Len(speculate(decoder, bits, 0).chain)

RIdle ==
    /\ rate_source = Source(<<>>, <<>>)
    /\ rate_L = <<>>
    /\ rate_data = <<>>
    /\ rate_commited = 0

RInit ==
    /\ rate_source \in Sources
    /\ rate_L \in UNION {IncreasingVectors(w) : w \in 0..MaxOffset}
    /\ rate_data = [i \in 1..InputLength |-> 1]
    /\ rate_commited = 0

SpeculateRound ==
    /\ rate_data # <<>>
    /\ \E n \in {commited_in_round(rate_source, rate_L, rate_data)} :
           rate_commited' = rate_commited + weight(rate_source, rate_data) * n
    /\ rate_data' = next_input(rate_data, Len(rate_source.codes))
    /\ UNCHANGED <<rate_source, rate_L, not_rvars>>

RNext == SpeculateRound

----------------------------------------------------------------------------
\* the later components at rest
TIdle == EIdle /\ GIdle /\ KIdle /\ RIdle

----------------------------------------------------------------------------
(* Specifications *)

vars == <<hvars, svars, dvars,
                   ovars, pvars, tvars>>

InitHuffman == HInit /\ SIdle /\ DIdle /\ OIdle /\ PIdle /\ TIdle
SpecHuffman == InitHuffman /\ [][HNext]_vars

InitSingle == SInit /\ HIdle /\ DIdle /\ OIdle /\ PIdle /\ TIdle
SpecSingle == InitSingle /\ [][SNext]_vars

Init == DInit /\ HIdle /\ SIdle /\ OIdle /\ PIdle /\ TIdle
Next == DNext
Spec == Init /\ [][Next]_vars

InitFlush == FInit /\ HIdle /\ SIdle /\ OIdle /\ PIdle /\ TIdle
SpecFlush == InitFlush /\ [][FNext]_vars

InitEncode == EInit /\ SIdle /\ DIdle /\ OIdle /\ PIdle /\ TIdle
SpecEncode == InitEncode /\ [][ENext]_vars

InitOptimize == OInit /\ HIdle /\ SIdle /\ DIdle /\ PIdle /\ TIdle
SpecOptimize == InitOptimize /\ [][ONext]_vars

InitPredictor == PInit /\ HIdle /\ SIdle /\ DIdle /\ OIdle /\ TIdle
SpecPredictor == InitPredictor /\ [][PNext]_vars

InitExpectation ==
    ExpInit /\ HIdle /\ SIdle /\ DIdle /\ OIdle /\ PIdle /\ GIdle /\ KIdle
    /\ RIdle
SpecExpectation == InitExpectation /\ [][ExpNext]_vars

InitRequests ==
    GInit /\ HIdle /\ SIdle /\ DIdle /\ OIdle /\ PIdle /\ EIdle /\ KIdle
    /\ RIdle
SpecRequests == InitRequests /\ [][GNext]_vars

InitKGram ==
    KInit /\ HIdle /\ SIdle /\ DIdle /\ OIdle /\ PIdle /\ EIdle /\ GIdle
    /\ RIdle
SpecKGram == InitKGram /\ [][KNext]_vars

InitScheme ==
    CInit /\ HIdle /\ SIdle /\ DIdle /\ OIdle /\ PIdle /\ EIdle /\ GIdle
    /\ RIdle
SpecScheme == InitScheme /\ [][CNext]_vars

InitRate ==
    RInit /\ HIdle /\ SIdle /\ DIdle /\ OIdle /\ PIdle /\ EIdle /\ GIdle
    /\ KIdle
SpecRate == InitRate /\ [][RNext]_vars

----------------------------------------------------------------------------
(* Properties of the Huffman core *)

IsPrefix(c, d) == Len(c) <= Len(d) /\ SubSeq(d, 1, Len(c)) = c

\* every codeword is non-empty and none is a prefix of another
PrefixCode(codes) ==
    /\ \A i \in 1..Len(codes) : codes[i][2] # <<>>
    /\ \A i, j \in 1..Len(codes) :
           i # j => ~IsPrefix(codes[i][2], codes[j][2])

MaxCodeLength(codes) ==
    IF codes = <<>> THEN 0
    ELSE CHOOSE m \in {Len(codes[i][2]) : i \in 1..Len(codes)} :
             \A i \in 1..Len(codes) : Len(codes[i][2]) <= m

\* sum over the codewords of 2^(M - len), M the maximum code length
KraftSum(codes) ==
    SeqSum([i \in 1..Len(codes) |->
               Pow2(MaxCodeLength(codes) - Len(codes[i][2]))])

\* C3: for a histogram with at least one entry and a sequence over its
\* alphabet, encode does not fail and decode(encode(data, generate(H)),
\* build_huffman_tree(H)) is data.
C3_RoundTrip ==
    Len(frequency_table) >= 1 =>
        /\ hstep \in {"encoded", "decoded"} => ~encoded_bits.raised
        /\ hstep = "decoded" =>
               ~decoded.raised /\ decoded.value = sequence

C3_Witness ==
    /\ hstep = "decoded"
    /\ frequency_table = S1_histogram
    /\ sequence = S1_input
    /\ encoded_bits.value =
           <<"1", "0", "1", "1", "0", "0", "1", "0", "1">>
    /\ decoded.value = S1_input

\* C4 (as claimed): for a non-empty histogram both generate(H) and
\* generate_huffman_codes(build_huffman_tree(H)) with default arguments
\* give non-empty, prefix-free codewords.
C4_BothTablesPrefixCodes ==
    (hstep \in {"codes", "encoded", "decoded"} /\ Len(frequency_table) >= 1)
        => PrefixCode(huffman_codes) /\ PrefixCode(default_codes)

\* the part of C4 that the code satisfies: the table of generate(H), and the
\* default-argument table when H has two or more entries
C4_GeneratePrefixCodes ==
    (hstep \in {"codes", "encoded", "decoded"} /\ Len(frequency_table) >= 1)
        => /\ PrefixCode(huffman_codes)
           /\ Len(frequency_table) >= 2 => default_codes = huffman_codes
           /\ Len(frequency_table) = 1 =>
                  default_codes = <<<<frequency_table[1][1], <<>>>>>>

\* C5: the code lengths of generate(H) satisfy Kraft's inequality, with
\* equality exactly when H has two or more entries.
C5_Kraft ==
    hstep \in {"codes", "encoded", "decoded"} =>
        /\ DictKeys(huffman_codes) = DictKeys(frequency_table)
        /\ KraftSum(huffman_codes) <= Pow2(MaxCodeLength(huffman_codes))
        /\ (KraftSum(huffman_codes) = Pow2(MaxCodeLength(huffman_codes)))
               <=> (Len(frequency_table) >= 2)

C5_Witness ==
    /\ hstep = "codes"
    /\ Len(frequency_table) = 3
    /\ MaxCodeLength(huffman_codes) = 2
    /\ KraftSum(huffman_codes) = 4

----------------------------------------------------------------------------
(* Properties of the single-symbol decoder *)

Max(a, b) == IF a >= b THEN a ELSE b

\* the shape of a result: a failure carries no symbol, a success carries a
\* symbol and at least one bit
ResultShape(r) ==
    /\ ~r.was_decoded => r.symbol = None
    /\ r.was_decoded => r.symbol # None /\ r.length >= 1

\* C7 (as claimed): decode returns {false, none, 0} on empty bits, a position
\* at or past the end, or a null tree; a failure has no symbol, a success has
\* one and length >= 1; the length never exceeds |bits| - position.
C7_LengthWithinRemainder ==
    single_call # <<>> =>
        LET position == single_call[1]
        IN  /\ (single_data = <<>> \/ position >= Len(single_data)
                    \/ single.decoding_tree = Nil)
                  => single_result = SingleDecodingResult(FALSE, None, 0)
            /\ ResultShape(single_result)
            /\ single_result.length <= Len(single_data) - position

\* C7 (amended): as above, with the length bounded by
\* max(0, |bits| - position): at a position past the end the result is
\* {false, none, 0} while |bits| - position is negative.
C7_SingleDecodeTotal ==
    single_call # <<>> =>
        LET position == single_call[1]
        IN  /\ (single_data = <<>> \/ position >= Len(single_data)
                    \/ single.decoding_tree = Nil)
                  => single_result = SingleDecodingResult(FALSE, None, 0)
            /\ ResultShape(single_result)
            /\ single_result.length
                  <= Max(0, Len(single_data) - position)

C7_Witness ==
    /\ single_call = <<1>>
    /\ Len(single_data) = 2
    /\ single_data[1] = "x"
    /\ single_result.was_decoded
    /\ single_result.length = 1

\* the two trees a single-symbol histogram gives a decoder
IsLeafTreeOf(tree, H) == tree = build_huffman_tree(H)
IsDecodingTreeOf(tree, H) == tree = build_decoding_tree(generate(H))

\* C8 (as claimed): for a single-symbol histogram {s: f} the decoder returns
\* {true, s, 1} at every position < |bits| whether the bit there is '0' or
\* '1', on build_huffman_tree(H) and on build_decoding_tree(generate(H)).
C8_SingleSymbolAnyBit ==
    \A H \in {G \in Histograms : Len(G) = 1} :
        (/\ single_call # <<>>
         /\ IsLeafTreeOf(single.decoding_tree, H)
                \/ IsDecodingTreeOf(single.decoding_tree, H)
         /\ single_call[1] < Len(single_data)
         /\ single_data[single_call[1] + 1] \in {"0", "1"})
        => single_result = SingleDecodingResult(TRUE, H[1][1], 1)

\* what the code does for C8: any bit on the bare leaf, only '0' on the
\* decoding tree (whose root has a left child and no right child)
C8_SingleSymbolPerTree ==
    \A H \in {G \in Histograms : Len(G) = 1} :
        (single_call # <<>> /\ single_call[1] < Len(single_data)) =>
            /\ IsLeafTreeOf(single.decoding_tree, H) =>
                   single_result = SingleDecodingResult(TRUE, H[1][1], 1)
            /\ IsDecodingTreeOf(single.decoding_tree, H) =>
                   single_result =
                       IF single_data[single_call[1] + 1] = "0"
                       THEN SingleDecodingResult(TRUE, H[1][1], 1)
                       ELSE SingleDecodingResult(FALSE, None, 1)

C8_Witness ==
    /\ single_call = <<1>>
    /\ IsDecodingTreeOf(single.decoding_tree, <<<<97, 1>>>>)
    /\ single_data = <<"0", "1">>
    /\ single_result = SingleDecodingResult(FALSE, None, 1)

----------------------------------------------------------------------------
(* Properties of the speculative decoder *)

\* what HuffmanCode.decode gives for the bits and the tree of the call
Sequential == decode(call_data, constructed.decoding_tree)

\* C1: whenever HuffmanCode.decode(b, T) decodes b without error, decode(b)
\* on a new speculative decoder returns the same symbol sequence, for every
\* width, chain limit and predictor.
C1_SpeculativeEqualsSequential ==
    (pc = "returned" /\ ~Sequential.raised) =>
        frame.decoded_symbols = Sequential.value

C1_Witness ==
    /\ pc = "returned"
    /\ constructed \in S1_construction
    /\ constructed.chain_length_limit = None
    /\ call_data = S1_bits
    /\ frame.decoded_symbols = S1_input
    /\ frame.commited_codewords = <<2, 2, 2>>

\* C2: decode terminates: it makes at most |bits| passes through its loop
\* (each counts w + 1 tries), and a pass either leaves the loop or moves
\* current_position forward by at least one bit, never past the end.
C2_Terminates ==
    /\ [](pc \in {"loop", "returned"} =>
              /\ sd.current_position <= Len(call_data)
              /\ frame.tries
                    <= (sd.speculation_width + 1) * Len(call_data))
    /\ [][pc = "loop" =>
              \/ pc' = "returned"
              \/ /\ sd'.current_position > sd.current_position
                 /\ sd'.current_position <= Len(call_data)]_vars

\* a call on malformed bits that returned after two committing passes
C2_Witness ==
    /\ pc = "returned"
    /\ Len(frame.commited_codewords) = 2
    /\ frame.tries = 3 * (sd.speculation_width + 1)
    /\ sd.current_position < Len(call_data)

\* C6: when HuffmanCode.decode raises on a missing child, the speculative
\* decode returns: it has left the loop at the codeword boundary where the
\* walk fails, with exactly the symbols decoded before that boundary (none,
\* and no commits, when the first walk fails, as for bits '1' against the
\* tree built from codes {s: '0'}).
C6_StopsAtMalformedBoundary ==
    (pc = "returned" /\ Sequential.raised) =>
        LET done == SubSeq(call_data, 1, sd.current_position)
            rest == SubSeq(call_data, sd.current_position + 1,
                           Len(call_data))
        IN  /\ frame.decoded_symbols = Sequential.value
            /\ sd.current_position < Len(call_data)
            /\ decode(done, constructed.decoding_tree)
                   = Returned(frame.decoded_symbols)
            /\ ~SingleDecoder_decode(
                    SingleDecoder(constructed.decoding_tree), rest, 0
                )[1].was_decoded
            /\ SeqSum(frame.commited_codewords)
                   = Len(frame.decoded_symbols)
            /\ sd.current_position = 0 =>
                   /\ frame.decoded_symbols = <<>>
                   /\ frame.commited_codewords = <<>>

\* bits '01' against the tree built from codes {a: '0'}: HuffmanCode.decode
\* raises at the second bit, the speculative decode returns 'a'
C6_Witness ==
    /\ pc = "returned"
    /\ constructed.decoding_tree
           = build_decoding_tree(<<<<97, <<"0">>>>>>)
    /\ call_data = <<"0", "1">>
    /\ Sequential.raised
    /\ frame.decoded_symbols = <<97>>
    /\ frame.commited_codewords = <<1>>

Range(s) == {s[i] : i \in 1..Len(s)}

\* C9 (as claimed): histogram {x: 1}, bits '0000', w = 3, no chain limit:
\* for any three predicted offsets the call returns 'xxxx' and
\* commits_per_round is [4].
C9_OneRoundAnyPredictor ==
    (pc = "returned" /\ constructed \in S2_construction) =>
        /\ frame.decoded_symbols = <<97, 97, 97, 97>>
        /\ frame.commited_codewords = <<4>>

\* C9 (amended): the call returns 'xxxx' for any three predicted offsets,
\* its commits sum to 4, and commits_per_round is [4] exactly when the
\* predicted offsets are 1, 2 and 3 in some order.
C9_OneRoundWhenPredicted ==
    (pc = "returned" /\ constructed \in S2_construction) =>
        /\ frame.decoded_symbols = <<97, 97, 97, 97>>
        /\ SeqSum(frame.commited_codewords) = 4
        /\ (frame.commited_codewords = <<4>>)
               <=> (Range(constructed.predictor.prediction_table)
                        = {1, 2, 3})

C9_Witness ==
    /\ pc = "returned"
    /\ constructed \in S2_construction
    /\ constructed.predictor.prediction_table = <<3, 1, 2>>
    /\ frame.commited_codewords = <<4>>
    /\ frame.tries = 4

\* what decode(call_data) returns on a newly constructed decoder
FreshReturn == run_decode(Construct(constructed), Locals, call_data)[1]

\* C10 (as claimed): after flush, decode(b) returns what decode(b) returns
\* on a newly constructed decoder with an identically initialised predictor,
\* static or dynamic.
C10_FlushEqualsFresh ==
    (pc = "returned" /\ after_flush) => ReturnValue(frame) = FreshReturn

\* C10 (amended): flush resets current_position and previous; the following
\* decode(b) returns what a new decoder returns when the predictor is static;
\* with a dynamic predictor, whose context flush leaves as the earlier calls
\* fed it, the output and successes are those of a new decoder.
C10_FlushResetsCursor ==
    /\ pc = "flushed" =>
           sd.current_position = 0 /\ sd.previous = None
    /\ (pc = "returned" /\ after_flush) =>
           /\ constructed.predictor.kind = "static" =>
                  ReturnValue(frame) = FreshReturn
           /\ ReturnValue(frame)[1] = FreshReturn[1]
           /\ ReturnValue(frame)[2][1] = FreshReturn[2][1]

C10_Witness ==
    /\ pc = "returned"
    /\ after_flush
    /\ calls = 2
    /\ constructed.predictor.kind = "static"
    /\ Len(frame.decoded_symbols) = 2
    /\ Len(frame.commited_codewords) = 1

\* the round decode is about to make, when it is inside its loop
InRound == pc = "loop" /\ sd.current_position < Len(call_data)
Round == chain_at(sd, call_data, sd.current_position)

\* C11: with chain_length_limit = k > 0 no round commits more than k
\* codewords; a round commits the first k codewords of its chain, the
\* position advances by their lengths only, and the next round starts with
\* the first codeword that was cut off.
C11_ChainLimit ==
    /\ [](constructed.chain_length_limit > 0 =>
              \A i \in 1..Len(frame.commited_codewords) :
                  frame.commited_codewords[i]
                      <= constructed.chain_length_limit)
    /\ [][(InRound /\ sd.chain_length_limit > 0) =>
              LET k == sd.chain_length_limit
                  kept == Take(Round.decoding_chain, k)
              IN  /\ sd'.current_position
                         = sd.current_position + SeqSum(fed_lengths(kept))
                  /\ frame'.decoded_symbols
                         = frame.decoded_symbols
                               \o [i \in 1..Len(kept) |-> kept[i].symbol]
                  /\ Len(Round.decoding_chain) > k =>
                         /\ pc' = "loop"
                         /\ sd'.current_position < Len(call_data)
                         /\ chain_at(sd', call_data,
                                     sd'.current_position).decoding_chain[1]
                                = Round.decoding_chain[k + 1]]_vars

\* scenario S1 with limit 1: every chain has two codewords, one is committed
C11_Witness ==
    /\ pc = "returned"
    /\ constructed \in S1_construction
    /\ constructed.chain_length_limit = 1
    /\ frame.commited_codewords = <<1, 1, 1, 1, 1, 1>>
    /\ frame.decoded_symbols = S1_input

\* C12: every entry of commits_per_round is between 1 and w + 1, tries grows
\* by w + 1 in every pass through the loop, and so successes is the sum of
\* commits_per_round, successes <= tries, and the commits average at least 1.
C12_CommitCounts ==
    /\ [](LET w == sd.speculation_width
              commits == frame.commited_codewords
              rounds == Len(commits)
                        + (IF pc = "returned"
                              /\ sd.current_position < Len(call_data)
                           THEN 1 ELSE 0)
          IN  pc \in {"loop", "returned"} =>
                  /\ \A i \in 1..Len(commits) :
                         1 <= commits[i] /\ commits[i] <= w + 1
                  /\ frame.tries = (w + 1) * rounds
                  /\ frame.successes = SeqSum(commits)
                  /\ frame.successes = Len(frame.decoded_symbols)
                  /\ frame.successes <= frame.tries
                  /\ SeqSum(commits) >= Len(commits))
    /\ [][InRound =>
              frame'.tries = frame.tries + sd.speculation_width + 1]_vars

C12_Witness ==
    /\ pc = "returned"
    /\ sd.speculation_width = 2
    /\ frame.commited_codewords = <<3, 1>>
    /\ frame.successes = 4
    /\ frame.tries = 6

\* C13: a round's chain, before truncation, has two or more codewords only
\* if the length decoded at offset 0 is a predicted length (truly_guessed is
\* 1); so a round whose prediction misses commits exactly one codeword.
C13_ChainNeedsTrueGuess ==
    /\ (InRound /\ Len(Round.decoding_chain) >= 2) =>
           Round.truly_guessed = 1
    /\ Len(frame.truly_predicted) = Len(frame.commited_codewords)
    /\ \A i \in 1..Len(frame.commited_codewords) :
           frame.truly_predicted[i] = 0 => frame.commited_codewords[i] = 1

\* w = 1: a round that guessed and committed two codewords, then a round
\* whose prediction missed
C13_Witness ==
    /\ pc = "returned"
    /\ sd.speculation_width = 1
    /\ frame.commited_codewords = <<2, 1>>
    /\ frame.truly_predicted = <<1, 0>>

\* the number of bits the decoders charge for symbol s on a tree: the depth
\* of the node carrying s, 1 on a tree that is a bare leaf
CodeLengthIn(tree, s) ==
    IF tree.symbol # None THEN 1
    ELSE Len(DictGet(generate_huffman_codes_default(tree), s))

LastN(s, n) == SubSeq(s, Len(s) - n + 1, Len(s))

\* C14: during a decode call on a new decoder the position never decreases,
\* strictly increases in a committing round, never exceeds |bits| and equals
\* the total length of the codewords committed so far; predictor.feed is
\* called once per output symbol, in output order, with that symbol's code
\* length.
C14_PositionAndFeeds ==
    /\ [](pc \in {"loop", "returned"} =>
              /\ sd.current_position <= Len(call_data)
              /\ sd.current_position = SeqSum(fed)
              /\ Len(fed) = Len(frame.decoded_symbols)
              /\ \A i \in 1..Len(fed) :
                     fed[i] = CodeLengthIn(constructed.decoding_tree,
                                           frame.decoded_symbols[i])
              /\ (sd.predictor.kind = "dynamic"
                     /\ constructed.predictor.context # <<>>) =>
                     sd.predictor.context
                         = LastN(constructed.predictor.context \o fed,
                                 Len(constructed.predictor.context)))
    /\ [][pc = "loop" =>
              /\ sd'.current_position >= sd.current_position
              /\ frame'.commited_codewords # frame.commited_codewords =>
                     sd'.current_position > sd.current_position
              /\ IsPrefix(fed, fed')
              /\ IsPrefix(frame.decoded_symbols, frame'.decoded_symbols)
          ]_vars

C14_Witness ==
    /\ pc = "returned"
    /\ sd.predictor.kind = "dynamic"
    /\ constructed.predictor.context = <<1>>
    /\ fed = <<1, 2, 1>>
    /\ sd.predictor.context = <<1>>
    /\ Len(frame.commited_codewords) = 2
    /\ sd.current_position = 4

\* a new decoder holding the predictor as the calls so far have left it
Unused == [Construct(constructed) EXCEPT !.predictor = sd.predictor]

\* C15: speculate's (chain, truly_guessed) is determined by the tree, the
\* predictor state, the bits and the position: the decoder of a running call,
\* whose attempt decoders carry the statistics of earlier rounds, gets what a
\* new decoder with the same predictor state gets.  A round that commits
\* nothing leaves current_position, previous and the predictor as they were,
\* and a committing round changes the predictor by its feed calls only.
C15_SpeculateDeterministic ==
    /\ [](InRound =>
              LET here == speculate(sd, call_data, sd.current_position)
                  anew == speculate(Unused, call_data, sd.current_position)
              IN  /\ here.chain = anew.chain
                  /\ here.truly_guessed = anew.truly_guessed)
    /\ [][InRound =>
              LET new == SubSeq(fed', Len(fed) + 1, Len(fed'))
              IN  /\ sd'.predictor = feed_each(sd.predictor, new)
                  /\ new = <<>> =>
                         /\ sd'.current_position = sd.current_position
                         /\ sd'.previous = sd.previous]_vars

\* a later round of a call, on attempt decoders that have statistics
C15_Witness ==
    /\ InRound
    /\ frame.tries > 0
    /\ sd.decoders # Unused.decoders
    /\ sd.predictor.kind = "dynamic"
    /\ sd.predictor # constructed.predictor
    /\ Len(speculate(sd, call_data, sd.current_position).chain) = 2

----------------------------------------------------------------------------
(* Further properties of the Huffman core *)

\* a tree without its frequencies
RECURSIVE Shape(_)
Shape(node) ==
    IF node = Nil THEN Nil
    ELSE [symbol |-> node.symbol, left |-> Shape(node.left),
          right |-> Shape(node.right)]

\* the node reached from node along code ('0' left, '1' right), Nil when the
\* walk leaves the tree
RECURSIVE Walk(_, _)
Walk(node, code) ==
    IF node = Nil \/ code = <<>> THEN node
    ELSE Walk(IF Head(code) = "0" THEN node.left ELSE node.right, Tail(code))

IsLeafWith(node, s) ==
    node # Nil /\ node.symbol = s /\ node.left = Nil /\ node.right = Nil

\* walking the decode tree along the code of any symbol ends at its leaf
CodesLeadToLeaves ==
    \A i \in 1..Len(huffman_codes) :
        IsLeafWith(Walk(build_decoding_tree(huffman_codes),
                        huffman_codes[i][2]),
                   huffman_codes[i][1])

\* C16 (as claimed): for a histogram with at least one entry,
\* build_decoding_tree(generate(H)) has the shape and the leaf symbols of
\* build_huffman_tree(H), and the code of every symbol leads to its leaf.
C16_SameShape ==
    (hstep \in {"codes", "encoded", "decoded"} /\ Len(frequency_table) >= 1)
        => /\ Shape(build_decoding_tree(huffman_codes)) = Shape(huffman_tree)
           /\ CodesLeadToLeaves

\* C16 (amended): the shapes and leaf symbols agree when the histogram has
\* two or more entries; for a single entry {s: f} the Huffman tree is the
\* bare leaf s while the decode tree is a root whose only child, the left
\* one, is the leaf s.  In both cases every code leads to its symbol's leaf.
C16_SameShapeFromTwo ==
    (hstep \in {"codes", "encoded", "decoded"} /\ Len(frequency_table) >= 1)
        => /\ Len(frequency_table) >= 2 =>
                  Shape(build_decoding_tree(huffman_codes))
                      = Shape(huffman_tree)
           /\ Len(frequency_table) = 1 =>
                  /\ Shape(huffman_tree)
                         = Shape(Node(frequency_table[1][1], 0))
                  /\ Shape(build_decoding_tree(huffman_codes))
                         = [symbol |-> None,
                            left |-> Shape(Node(frequency_table[1][1], 0)),
                            right |-> Nil]
           /\ CodesLeadToLeaves

C16_Witness ==
    /\ hstep = "codes"
    /\ frequency_table = S1_histogram
    /\ Shape(build_decoding_tree(huffman_codes)) = Shape(huffman_tree)
    /\ IsLeafWith(Walk(huffman_tree, <<"0", "1">>), 98)

\* the codes of the symbols of data, one after the other
RECURSIVE Concatenation(_, _)
Concatenation(data, codes) ==
    IF data = <<>> THEN <<>>
    ELSE DictGet(codes, Head(data)) \o Concatenation(Tail(data), codes)

\* C17: encode fails whenever a symbol of the sequence has no entry in the
\* code table, for every table including the empty one, and otherwise
\* returns the concatenation of the symbols' codes in order.
C17_EncodeFailsOnUnknown ==
    hstep \in {"encoded", "decoded"} =>
        IF \E i \in 1..Len(sequence) : ~DictHas(huffman_codes, sequence[i])
        THEN encoded_bits.raised
        ELSE /\ ~encoded_bits.raised
             /\ encoded_bits.value = Concatenation(sequence, huffman_codes)

\* what the code does for C17: with an empty table encode returns '' for any
\* sequence; with a non-empty table it is as claimed
C17_EncodeOnNonEmptyTable ==
    hstep \in {"encoded", "decoded"} =>
        IF huffman_codes = <<>>
        THEN encoded_bits = Returned(<<>>)
        ELSE IF \E i \in 1..Len(sequence) :
                    ~DictHas(huffman_codes, sequence[i])
             THEN encoded_bits.raised
             ELSE /\ ~encoded_bits.raised
                  /\ encoded_bits.value
                         = Concatenation(sequence, huffman_codes)

\* C18: in generate(H) a symbol of higher frequency never has a longer code
\* than a symbol of lower frequency.
C18_FrequentSymbolsShorter ==
    hstep \in {"codes", "encoded", "decoded"} =>
        \A i, j \in 1..Len(frequency_table) :
            frequency_table[i][2] > frequency_table[j][2] =>
                Len(DictGet(huffman_codes, frequency_table[i][1]))
                    <= Len(DictGet(huffman_codes, frequency_table[j][1]))

C18_Witness ==
    /\ hstep = "codes"
    /\ frequency_table = <<<<98, 2>>, <<99, 1>>, <<97, 5>>>>
    /\ Len(DictGet(huffman_codes, 97)) = 1
    /\ Len(DictGet(huffman_codes, 98)) = 2
    /\ Len(DictGet(huffman_codes, 99)) = 2


----------------------------------------------------------------------------
(* Properties of the optimizer and of the dynamic predictor *)

Scores == {score(scheme, opt_w, variants[i]) : i \in 1..Len(variants)}

MaxScore == CHOOSE m \in Scores : \A x \in Scores : x <= m

\* the pair optimize holds after the results of variants[1..i] arrived in
\* the order of the list
RECURSIVE InListOrder(_)
InListOrder(i) ==
    IF i = 0 THEN <<0, NoVariant>>
    ELSE take_result(InListOrder(i - 1),
                     _calculate_score(scheme, opt_w, variants[i]))

\* C19: for every non-empty list of variants and every order in which the
\* scored results arrive, optimize returns the same pair (the one it returns
\* when they arrive in list order), whose best_score is the maximum of
\* score(w, L) over the variants and whose best_L is one of the variants
\* and has that score.
C19_SamePairEveryOrder ==
    ostep = "returned" =>
        /\ <<best_score, best_variant>> = InListOrder(Len(variants))
        /\ best_score = MaxScore
        /\ ~best_variant.is_none
        /\ best_variant.value \in Range(variants)
        /\ score(scheme, opt_w, best_variant.value) = best_score

\* what optimize does return in every order: the maximum score, and one of
\* the variants that have it, unless no score is above 0, when it returns
\* (0, None)
C19_MaximumAboveZero ==
    ostep = "returned" =>
        /\ best_score = Max(0, MaxScore)
        /\ best_variant.is_none <=> MaxScore <= 0
        /\ ~best_variant.is_none =>
               /\ best_variant.value \in Range(variants)
               /\ score(scheme, opt_w, best_variant.value) = best_score

\* two variants tie for the maximum and the later one of the list is returned
C19_TieSeen ==
    /\ ostep = "returned"
    /\ Len(variants) = 2
    /\ score(scheme, opt_w, variants[1]) = score(scheme, opt_w, variants[2])
    /\ best_score > 0
    /\ best_variant = Variant(variants[2])

\* C20: after any feed calls a DynamicPredictor's context is the last m
\* elements of its initial context (of length m) followed by the fed
\* lengths, so its length stays m; implicitly_predict(n) returns the first n
\* entries of the table's value for the context when the context is a key,
\* of the sorted fallback vector otherwise, and leaves the context alone.
C20_ContextWindow ==
    /\ dp.context = LastN(context0 \o feeds, Len(context0))
    /\ Len(dp.context) = Len(context0)
    /\ prediction # <<>> =>
           prediction[2] =
               IF DictHas(dp.prediction_table, dp.context)
               THEN Take(DictGet(dp.prediction_table, dp.context),
                         prediction[1])
               ELSE Take(<<1, 3>>, prediction[1])

\* what the predictor does: the window keeps its length when that is 1 or
\* more; an empty initial context grows to the last fed length
C20_ContextWindowFromOne ==
    /\ Len(context0) >= 1 =>
           /\ dp.context = LastN(context0 \o feeds, Len(context0))
           /\ Len(dp.context) = Len(context0)
    /\ (Len(context0) = 0 /\ feeds # <<>>) =>
           dp.context = <<feeds[Len(feeds)]>>
    /\ prediction # <<>> =>
           prediction[2] =
               IF DictHas(dp.prediction_table, dp.context)
               THEN Take(DictGet(dp.prediction_table, dp.context),
                         prediction[1])
               ELSE Take(<<1, 3>>, prediction[1])

\* scenario S5: table {(1,): (2,)} and context (1,) give (2,)
C20_S5Seen ==
    /\ dp.prediction_table = <<<<<<1>>, <<2>>>>>>
    /\ dp.context = <<1>>
    /\ feeds # <<>>
    /\ prediction = <<1, <<2>>>>


----------------------------------------------------------------------------
(* Properties of the expectation, the generator and the k-gram model *)

\* the recursion E(0, _) = 0, E(w, L) = sum over i of
\* p(L[i]) * (1 + E(w - i - 1, (L[j] - L[i] for j > i))), as a numerator
\* over Denominator^w (i counted from 1)
RECURSIVE E(_, _)
E(w, L) ==
    LET shifted(i) == [j \in 1..(w - i) |-> L[j + i] - L[i]]
        term(i) == SimpleProbabilisticScheme_p(calc_scheme, L[i])
                   * (Power(Denominator, w - 1)
                      + Power(Denominator, i - 1) * E(w - i, shifted(i)))
        RECURSIVE sum_to(_)
        sum_to(n) == IF n = 0 THEN 0 ELSE sum_to(n - 1) + term(n)
    IN  IF w = 0 THEN 0 ELSE sum_to(w)

\* C21: for every strictly increasing vector L of w offsets,
\* expectation_sorted(w, L) equals the recursion E, whether the cache is
\* empty or holds the values of earlier calls (every value the cache holds
\* is the recursion's value for its key); for outcomes [1, 2, 3] with
\* probabilities [0.5, 0.3, 0.2], expectation_sorted(2, (1, 2)) is 1.05.
C21_ExpectationIsRecursion ==
    /\ calc_call # <<>> =>
           /\ calc_call[3] = E(calc_call[1], calc_call[2])
           /\ DictHas(calc_cache, <<calc_call[1], calc_call[2]>>)
           /\ (calc_scheme = ExampleScheme /\ calc_call[1] = 2
               /\ calc_call[2] = <<1, 2>>) =>
                  calc_call[3] * 100 = 105 * Power(Denominator, 2)
    /\ \A i \in 1..Len(calc_cache) :
           calc_cache[i][2] = E(calc_cache[i][1][1], calc_cache[i][1][2])

\* the worked example answered from a cache warmed by
\* expectation_sorted(3, (1, 2, 3))
C21_Witness ==
    /\ calc_scheme = ExampleScheme
    /\ calc_calls = 2
    /\ calc_call = <<2, <<1, 2>>, 105>>
    /\ calc_cache[Len(calc_cache)][1] = <<3, <<1, 2, 3>>>>


\* the sums of between 1 and j of the lengths, repetition allowed
RECURSIVE SumOf(_)
SumOf(s) == IF s = <<>> THEN 0 ELSE Head(s) + SumOf(Tail(s))

SumsUpTo(lengths, j) ==
    {SumOf(c) : c \in UNION {[1..k -> Elements(lengths)] : k \in 1..j}}

\* n distinct sums can be formed from the lengths: with a length above zero
\* n terms are enough, without one there is at most the sum 0
CanBeFormed(lengths, n) == Cardinality(SumsUpTo(lengths, n)) >= n

\* C22: a request that cannot be satisfied is raised, not answered short nor
\* left running: get_top(n) raises when n exceeds the number of outcomes and
\* otherwise returns n distinct outcomes whose probabilities are at least
\* those of every outcome left out, and get_baseline_set(n) raises when
\* fewer than n distinct sums can be formed from the lengths, so that it
\* never calls itself MaxLevels frames deep on such a request.
C22_ImpossibleRequestsRaise ==
    /\ top_call # <<>> =>
           LET n == top_call[1]
               r == top_call[2]
           IN  IF n > Len(top_scheme.outcomes)
               THEN r.raised
               ELSE /\ ~r.raised
                    /\ Len(r.value) = n
                    /\ \A i, k \in 1..n : i # k => r.value[i] # r.value[k]
                    /\ \A o \in Elements(top_scheme.outcomes) :
                       \A t \in Elements(r.value) :
                           \/ o \in Elements(r.value)
                           \/ SimpleProbabilisticScheme_p(top_scheme, t)
                              >= SimpleProbabilisticScheme_p(top_scheme, o)
    /\ ~CanBeFormed(gen_lengths, gen_n) =>
           gen_j < gen_j0 + MaxLevels

\* what the code does: get_top keeps its side, and get_baseline_set on a
\* request that cannot be satisfied calls itself with j + 1 in every frame
\* and returns from none
C22_GetTopRaisesBaselineRecurses ==
    /\ top_call # <<>> =>
           LET n == top_call[1]
               r == top_call[2]
           IN  IF n > Len(top_scheme.outcomes)
               THEN r.raised
               ELSE /\ ~r.raised
                    /\ Len(r.value) = n
                    /\ \A o \in Elements(top_scheme.outcomes) :
                       \A t \in Elements(r.value) :
                           \/ o \in Elements(r.value)
                           \/ SimpleProbabilisticScheme_p(top_scheme, t)
                              >= SimpleProbabilisticScheme_p(top_scheme, o)
    /\ ~CanBeFormed(gen_lengths, gen_n) =>
           /\ gen_result = <<>>
           /\ baseline_frame(gen_lengths, gen_n, gen_j).recurse

\* get_baseline_set(2) on the lengths [0], MaxLevels frames deep
C22_StillRecursing ==
    /\ gen_lengths = <<0>>
    /\ gen_n = 2
    /\ gen_j = gen_j0 + MaxLevels
    /\ gen_result = <<>>
    /\ top_call # <<>>
    /\ top_call[2].raised

\* the least j at or above the j of the call whose sums number n or more
LeastJ ==
    CHOOSE j \in gen_j0..(gen_j0 + gen_n) :
        /\ Cardinality(SumsUpTo(gen_lengths, j)) >= gen_n
        /\ \A i \in gen_j0..(j - 1) :
               Cardinality(SumsUpTo(gen_lengths, i)) < gen_n

DecodedAt(position) ==
    SingleDecoder_decode(sd.decoders[1], call_data, position)[1]

\* an attempt is made at offset o of the round, and it succeeds
Succeeds(o) ==
    /\ \/ o = 0
       \/ Contains(implicitly_predict(sd.predictor, sd.speculation_width), o)
    /\ sd.current_position + o < Len(call_data)
    /\ DecodedAt(sd.current_position + o).was_decoded

\* C23: with no chain_length_limit, speculate(bits, position) returns the
\* empty chain and truly_guessed = 0 when the attempt at offset 0 fails,
\* whatever the attempts at predicted offsets give; otherwise the chain is
\* c1..cm with every c(j+1) the codeword decoded at position +
\* len(c1)+...+len(cj), each of these offsets being one where an attempt was
\* made and succeeded (0 or a predicted offset inside the bit string), and
\* len(c1)+...+len(cm) not being such an offset.
C23_ChainAnchoredAndMaximal ==
    (InRound /\ sd.chain_length_limit = None) =>
        LET s == speculate(sd, call_data, sd.current_position)
            m == Len(s.chain)
            offset(j) == SeqSum([i \in 1..(j - 1) |-> s.chain[i].length])
        IN  IF ~Succeeds(0)
            THEN s.chain = <<>> /\ s.truly_guessed = 0
            ELSE /\ m >= 1
                 /\ \A j \in 1..m :
                        /\ Succeeds(offset(j))
                        /\ s.chain[j]
                               = DecodedAt(sd.current_position + offset(j))
                 /\ ~Succeeds(offset(m + 1))

\* a round without limit whose attempt at offset 0 fails while one at a
\* predicted offset succeeds
C23_GapInFront ==
    /\ InRound
    /\ sd.chain_length_limit = None
    /\ ~Succeeds(0)
    /\ \E o \in 1..MaxBits : Succeeds(o)



\* C26: after any decode and reset_statistics calls on a SingleDecoder,
\* total_decodes = successful_decodes + failed_decodes = the number of decode
\* calls since the last reset, bits_processed is the sum of the lengths
\* returned since then, single_symbol_decodes <= successful_decodes, right
\* after reset_statistics every counter and both ratios read zero, and a
\* decode returns what a decoder without any history returns.
C26_StatisticsDescribe ==
    LET stats == single.stats
        successes == {i \in 1..Len(single_returned) :
                         single_returned[i].was_decoded}
    IN  /\ stats.total_decodes = Len(single_returned)
        /\ stats.total_decodes
               = stats.successful_decodes + stats.failed_decodes
        /\ stats.successful_decodes = Cardinality(successes)
        /\ stats.bits_processed = SeqSum(fed_lengths(single_returned))
        /\ stats.single_symbol_decodes <= stats.successful_decodes
        /\ single_returned = <<>> =>
               /\ stats = DecodingStatistics
               /\ success_rate(stats) = <<0, 1>>
               /\ average_bits_per_decode(stats) = <<0, 1>>
        /\ single_call # <<>> =>
               single_result
                   = SingleDecoder_decode(SingleDecoder(single.decoding_tree),
                                          single_data, single_call[1])[1]

\* since the last reset a failed decode that read one character, then a
\* successful one
C26_TwoDecodesAfterReset ==
    /\ Len(single_returned) = 2
    /\ ~single_returned[1].was_decoded
    /\ single_returned[1].length = 1
    /\ single_returned[2].was_decoded
    /\ single.stats.bits_processed = 2
    /\ success_rate(single.stats) = <<1, 2>>


\* the window of k symbols that ends with the i-th fed symbol
Window(i) == SubSeq(kg_fed, i - kg.k + 1, i)

\* the feeds that count their window: those made after an earlier feed had
\* left the window without a sentinel, the k-th feed being the first to do so
CountingFeeds == (kg.k + 1)..Len(kg_fed)

\* the state of the model described by what it was fed
DescribesFed ==
    /\ SeqSum([i \in 1..Len(kg.frequencies) |-> kg.frequencies[i][2]])
           = Max(0, Len(kg_fed) - kg.k)
    /\ DictKeys(kg.frequencies) = {Window(i) : i \in CountingFeeds}
    /\ \A j \in 1..Len(kg.frequencies) :
           /\ kg.frequencies[j][2]
                  = Cardinality({i \in CountingFeeds :
                                    Window(i) = kg.frequencies[j][1]})
           /\ \A i \in 1..(j - 1) :
                  kg.frequencies[i][1] # kg.frequencies[j][1]
    /\ SeqSum([i \in 1..Len(kg.outcome_frequencies) |->
                  kg.outcome_frequencies[i][2]]) = Len(kg_fed)
    /\ kg.alphabet = Elements(kg_fed)

\* C24: on a fresh KGramModel of order k a feed counts its window exactly
\* when the window holds no sentinel and was already without one after an
\* earlier feed, so after feeding x1..xn the k-gram counts sum to
\* max(0, n - k), every counted tuple is a window of k consecutive fed
\* symbols, the outcome frequencies sum to n and the alphabet is the set of
\* fed symbols.
C24_CountsForEveryOrder == DescribesFed

\* what the model does: the above for k >= 1; with k = 0 every feed raises
\* IndexError from the pop of the empty window and records nothing
C24_CountsFromOrderOne ==
    /\ kg.k >= 1 => DescribesFed /\ kg.is_ok = (Len(kg_fed) >= kg.k)
    /\ kg.k = 0 => kg = KGramModel(0)

\* k = 2 fed 1, 2, 1, 2, 1: the window (1, 2) of the second feed is not
\* counted, the three later windows are
C24_FirstWindowSkipped ==
    /\ kg.k = 2
    /\ kg_fed = <<1, 2, 1, 2, 1>>
    /\ kg.frequencies = <<<<<<2, 1>>, 2>>, <<<<1, 2>>, 1>>>>


\* the contexts of the counted k-grams, the outcomes counted after a context
\* and how often, and how often a symbol was fed
ObservedContexts ==
    {SubSeq(g, 1, Len(g) - 1) : g \in DictKeys(kg.frequencies)}
Support(context) ==
    {g[Len(g)] : g \in {h \in DictKeys(kg.frequencies) :
                           SubSeq(h, 1, Len(h) - 1) = context}}
CountAfter(context, outcome) ==
    DictGet(kg.frequencies, Append(context, outcome))
TimesFed(symbol) == Cardinality({i \in 1..Len(kg_fed) : kg_fed[i] = symbol})

\* C25: on a scheme made from a trained model with n or more distinct
\* outcomes, n >= 1, build_assignment_table(n) has exactly one entry per
\* context of a counted k-gram, each a strictly increasing tuple of exactly n
\* lengths: n most probable outcomes of the context when it has that many,
\* else all its outcomes and the most often fed outcomes among the others;
\* k = 2 trained on 1, 2, 1, 2, 1, 2 with n = 1 gives (1,) -> (2,).
C25_AssignmentTable ==
    (/\ cps_table # <<>>
     /\ cps_inserted = 0
     /\ cps_table[1] >= 1
     /\ number_of_outcomes(kg) >= cps_table[1]) =>
        LET n == cps_table[1]
            table == cps_table[2].value
        IN  /\ ~cps_table[2].raised
            /\ DictKeys(table) = ObservedContexts
            /\ Len(table) = Cardinality(ObservedContexts)
            /\ \A i \in 1..Len(table) :
                   LET context == table[i][1]
                       t == table[i][2]
                       chosen == Elements(t)
                       own == Support(context)
                   IN  /\ Len(t) = n
                       /\ \A j \in 1..(n - 1) : t[j] < t[j + 1]
                       /\ IF Cardinality(own) >= n
                          THEN /\ chosen \subseteq own
                               /\ \A e \in chosen : \A o \in own \ chosen :
                                      CountAfter(context, e)
                                          >= CountAfter(context, o)
                          ELSE /\ own \subseteq chosen
                               /\ chosen \subseteq kg.alphabet
                               /\ \A e \in chosen \ own :
                                  \A o \in kg.alphabet \ chosen :
                                      TimesFed(e) >= TimesFed(o)
            /\ (kg.k = 2 /\ kg_fed = <<1, 2, 1, 2, 1, 2>> /\ n = 1) =>
                   DictGet(table, <<1>>) = <<2>>

\* k = 2 trained on 1, 2, 1, 2, 1, 2 and n = 2: each context has one outcome
\* and is padded with the other
C25_Padded ==
    /\ kg.k = 2
    /\ kg_fed = <<1, 2, 1, 2, 1, 2>>
    /\ cps_inserted = 0
    /\ cps_table = <<2, Returned(<<<<<<2>>, <<1, 2>>>>,
                                   <<<<1>>, <<1, 2>>>>>>)>>

\* C29: p and p_context only read: whatever queries were made before it,
\* outcomes and contexts outside the support included,
\* build_assignment_table(n) returns the table it returns on a scheme that
\* was never queried.
C29_QueriesReadOnly ==
    cps_table # <<>> =>
        cps_table[2]
            = build_assignment_table(ConditionalProbabilisticScheme(kg),
                                     cps_table[1])

\* what the code does: p_context adds to _context_probability only, which
\* the table does not depend on; p adds the outcome it is asked for to the
\* inner dictionary of a known context, and the table follows the scheme as
\* it is then
C29_TableOfSchemeAsQueried ==
    /\ ConditionalProbabilisticScheme(kg).map # cps.map =>
           /\ cps_inserted > 0
           /\ \A i \in 1..Len(cps.map) :
                  /\ cps.map[i][1] \in ObservedContexts
                  /\ \A j \in 1..Len(cps.map[i][2]) :
                         \/ cps.map[i][2][j][1] \in Support(cps.map[i][1])
                         \/ cps.map[i][2][j][2] = 0
    /\ cps_inserted = 0 => cps = ConditionalProbabilisticScheme(kg)

\* after p(5, (1,)) on the scheme of 1, 2, 1, 2, 1, 2 the table for n = 2
\* holds (1,) -> (2, 5)
C29_ZeroOutcomeChosen ==
    /\ kg.k = 2
    /\ kg_fed = <<1, 2, 1, 2, 1, 2>>
    /\ cps_inserted = 1
    /\ cps_table # <<>>
    /\ cps_table[1] = 2
    /\ ~cps_table[2].raised
    /\ DictGet(cps_table[2].value, <<1>>) = <<2, 5>>


\* C28: with codeword lengths drawn independently from a simple scheme and a
\* strictly increasing vector L of w positive offsets, all inside the bit
\* string, the expected number of codewords one speculate round without
\* chain limit commits is 1 + expectation_sorted(w, L): summed over every
\* input, each weighted by its probability (a numerator over
\* Denominator^InputLength), the committed codewords come to
\* Denominator^InputLength + Denominator^(InputLength - w) times the
\* numerator of expectation_sorted(w, L).
C28_RateIsOnePlusExpectation ==
    rate_data = <<>> /\ rate_source.codes # <<>> =>
        rate_commited
            = Power(Denominator, InputLength)
              + Power(Denominator, InputLength - Len(rate_L))
                * expectation_sorted(scheme_of(rate_source), Len(rate_L),
                                     rate_L)

\* lengths 1, 2, 3 with probabilities 0.5, 0.3, 0.2 and L = (1, 2): every
\* input decoded, 2.05 codewords expected
C28_ExampleRate ==
    /\ scheme_of(rate_source) = ExampleScheme
    /\ rate_L = <<1, 2>>
    /\ rate_data = <<>>
    /\ rate_commited * 100 = 205 * Power(Denominator, InputLength)

=============================================================================
